---- MODULE Spec2Model ----
(***************************************************************************)
(* Layout-preserving PDF translation (KarthickS21/pdf-translator).         *)
(*                                                                         *)
(* A text is a sequence of characters; a character is a one-character      *)
(* string, and the accented letters n~ a^ e^ o^ stand for the Spanish      *)
(* letters of the glossary and of the label "Traduccion:".                 *)
(***************************************************************************)
EXTENDS Integers, Sequences, FiniteSets, TLC

(***************************************************************************)
(* Bounds of the model.                                                    *)
(***************************************************************************)
\* longest text enumerated character by character for the eligibility rules
MaxLen == 3
\* largest retry bound given to translate_text_conservative
MaxRetries == 3
\* largest number of consecutive backend failures scripted
MaxFails == 4

(***************************************************************************)
(* Characters and the string primitives of Python the code uses.           *)
(***************************************************************************)
LowerSeq ==
  <<"a","b","c","d","e","f","g","h","i","j","k","l","m","n","o","p","q","r",
    "s","t","u","v","w","x","y","z","n~","a^","e^","o^">>

UpperSeq ==
  <<"A","B","C","D","E","F","G","H","I","J","K","L","M","N","O","P","Q","R",
    "S","T","U","V","W","X","Y","Z","N~","A^","E^","O^">>

Range(s) == {s[i] : i \in DOMAIN s}

\* \d of the regular expressions
Digit == {"0","1","2","3","4","5","6","7","8","9"}

\* [A-Z] of the regular expressions: ASCII only
AsciiUpper == {UpperSeq[i] : i \in 1..26}

\* str.isalpha of one character
IsAlpha(c) == c \in Range(LowerSeq) \cup Range(UpperSeq)

\* the characters str.strip() and str.split() treat as white space
Whitespace == {" ", "\t", "\n"}

\* str.upper of one character
UpperChar(c) ==
  IF \E i \in DOMAIN LowerSeq : LowerSeq[i] = c
    THEN UpperSeq[CHOOSE i \in DOMAIN LowerSeq : LowerSeq[i] = c]
    ELSE c

\* str.lower of one character
LowerChar(c) ==
  IF \E i \in DOMAIN UpperSeq : UpperSeq[i] = c
    THEN LowerSeq[CHOOSE i \in DOMAIN UpperSeq : UpperSeq[i] = c]
    ELSE c

Upper(t) == [i \in DOMAIN t |-> UpperChar(t[i])]

Lower(t) == [i \in DOMAIN t |-> LowerChar(t[i])]

RECURSIVE LStrip(_)
LStrip(t) ==
  IF t # <<>> /\ Head(t) \in Whitespace THEN LStrip(Tail(t)) ELSE t

RECURSIVE RStrip(_)
RStrip(t) ==
  IF t # <<>> /\ t[Len(t)] \in Whitespace
    THEN RStrip(SubSeq(t, 1, Len(t) - 1))
    ELSE t

\* str.strip()
Strip(t) == RStrip(LStrip(t))

\* str.replace(c, '')
Remove(t, c) == SelectSeq(t, LAMBDA x : x # c)

\* str.startswith(p)
StartsWith(t, p) == Len(t) >= Len(p) /\ SubSeq(t, 1, Len(p)) = p

\* t[n:]
Drop(t, n) == SubSeq(t, n + 1, Len(t))

\* len(t.split()): the number of maximal runs of non-white-space characters
WordCount(t) ==
  Cardinality({i \in DOMAIN t :
                 /\ t[i] \notin Whitespace
                 /\ (i = 1 \/ t[i - 1] \in Whitespace)})

\* sum(1 for c in text if c.isalpha())
AlphaCount(t) == Cardinality({i \in DOMAIN t : IsAlpha(t[i])})

(***************************************************************************)
(* The three regular expressions of should_translate_text, on a text that  *)
(* has been stripped (so "$" cannot match before a final line break).      *)
(***************************************************************************)
AllIn(t, S) == \A i \in DOMAIN t : t[i] \in S

\* ^\d+$
MatchesNumber(t) == Len(t) >= 1 /\ AllIn(t, Digit)

\* ^\$\d+([,\d]*\.?\d*)?$ : "$", digits, then a run of commas and digits,
\* an optional ".", and digits
MatchesCurrency(t) ==
  /\ Len(t) >= 2
  /\ t[1] = "$"
  /\ t[2] \in Digit
  /\ \E k \in 2..Len(t) :
       /\ AllIn(SubSeq(t, 2, k), Digit \cup {","})
       /\ \/ k = Len(t)
          \/ /\ t[k + 1] = "."
             /\ AllIn(SubSeq(t, k + 2, Len(t)), Digit)

\* ^[A-Z0-9]{3,}$
MatchesCode(t) == Len(t) >= 3 /\ AllIn(t, AsciiUpper \cup Digit)

Abbreviations ==
  { <<"N","/","A">>, <<"M","R","I">>, <<"M","R","A">>, <<"P","E","T">>,
    <<"C","T">>, <<"P","C","P">>, <<"E","O","C">> }

\* the order of the tests is the order of the code
should_translate_textNoAbbrev(input) ==
  LET t == Strip(input) IN
  IF t = <<>> THEN FALSE
  ELSE IF MatchesNumber(t) THEN FALSE
  ELSE IF MatchesCurrency(t) THEN FALSE
  ELSE IF MatchesCode(t) THEN FALSE
  ELSE IF Len(t) <= 2 THEN FALSE
  ELSE IF AlphaCount(t) < 3 THEN FALSE
  ELSE TRUE

should_translate_text(input) ==
  LET t == Strip(input) IN
  IF t = <<>> THEN FALSE
  ELSE IF MatchesNumber(t) THEN FALSE
  ELSE IF MatchesCurrency(t) THEN FALSE
  ELSE IF MatchesCode(t) THEN FALSE
  ELSE IF Len(t) <= 2 THEN FALSE
  ELSE IF Upper(t) \in Abbreviations THEN FALSE
  ELSE IF AlphaCount(t) < 3 THEN FALSE
  ELSE TRUE

(***************************************************************************)
(* The glossary and the post-processing of translate_text_conservative.    *)
(***************************************************************************)
common_terms ==
  { [key |-> <<"c","o","p","a","y">>,
     val |-> <<"c","o","p","a","g","o">>],
    [key |-> <<"d","e","d","u","c","t","i","b","l","e">>,
     val |-> <<"d","e","d","u","c","i","b","l","e">>],
    [key |-> <<"p","r","e","m","i","u","m">>,
     val |-> <<"p","r","i","m","a">>],
    [key |-> <<"p","l","a","n">>,
     val |-> <<"p","l","a","n">>],
    [key |-> <<"y","e","a","r">>,
     val |-> <<"a","n~","o">>],
    [key |-> <<"s","e","r","v","i","c","e","s">>,
     val |-> <<"s","e","r","v","i","c","i","o","s">>],
    [key |-> <<"c","o","v","e","r","a","g","e">>,
     val |-> <<"c","o","b","e","r","t","u","r","a">>],
    [key |-> <<"b","e","n","e","f","i","t","s">>,
     val |-> <<"b","e","n","e","f","i","c","i","o","s">>],
    [key |-> <<"m","a","x","i","m","u","m">>,
     val |-> <<"m","a^","x","i","m","o">>],
    [key |-> <<"m","o","n","t","h","l","y">>,
     val |-> <<"m","e","n","s","u","a","l">>],
    [key |-> <<"m","e","d","i","c","a","l">>,
     val |-> <<"m","e^","d","i","c","o">>],
    [key |-> <<"h","o","s","p","i","t","a","l">>,
     val |-> <<"h","o","s","p","i","t","a","l">>],
    [key |-> <<"i","n","p","a","t","i","e","n","t">>,
     val |-> <<"h","o","s","p","i","t","a","l","i","z","a","c","i","o^","n">>],
    [key |-> <<"o","u","t","p","a","t","i","e","n","t">>,
     val |-> <<"a","m","b","u","l","a","t","o","r","i","o">>] }

InGlossary(k) == \E e \in common_terms : e.key = k

GlossaryValue(k) == (CHOOSE e \in common_terms : e.key = k).val

\* the glossary is consulted for a text of at most two words only
GlossaryHitExact(input) == InGlossary(input)

GlossaryHit(input) ==
  WordCount(input) <= 2 /\ InGlossary(Strip(Lower(input)))

\* the labels a backend may echo; target_lang is "Spanish", so the third and
\* the fourth label of the code's list are the same
prefixes ==
  << <<"T","r","a","n","s","l","a","t","i","o","n",":">>,
     <<"T","r","a","d","u","c","c","i","o^","n",":">>,
     <<"S","p","a","n","i","s","h",":">>,
     <<"S","p","a","n","i","s","h",":">> >>

RECURSIVE StripPrefixes(_, _)
StripPrefixes(t, i) ==
  IF i > Len(prefixes) THEN t
  ELSE IF StartsWith(t, prefixes[i])
    THEN StripPrefixes(Strip(Drop(t, Len(prefixes[i]))), i + 1)
    ELSE StripPrefixes(t, i + 1)

\* what the code makes of the content of a backend response
PostProcess(content) ==
  StripPrefixes(Remove(Remove(Strip(content), "\""), "'"), 1)

RECURSIVE Pow2(_)
Pow2(n) == IF n = 0 THEN 1 ELSE 2 * Pow2(n - 1)

(***************************************************************************)
(* Geometry.  Lengths and font sizes are integers in hundredths of a       *)
(* point, which keeps 0.6 x size, 1.2 x size, 0.9 x size and 0.8 x size    *)
(* exact for the sizes that occur.  A rectangle is [x0, y0, x1, y1].       *)
(***************************************************************************)
Max(a, b) == IF a >= b THEN a ELSE b

Min(a, b) == IF a <= b THEN a ELSE b

Rect(a, b, c, d) == [x0 |-> a, y0 |-> b, x1 |-> c, y1 |-> d]

\* the rectangles share a point of their interiors
Intersects(r, b) ==
  r.x0 < b.x1 /\ b.x0 < r.x1 /\ r.y0 < b.y1 /\ b.y0 < r.y1

\* r contains b with room to spare on all four sides
StrictlyContains(r, b) ==
  r.x0 < b.x0 /\ r.y0 < b.y0 /\ r.x1 > b.x1 /\ r.y1 > b.y1

\* the raw font of a span: whether its name holds "bold", "italic", and
\* its flags
RawFont(b, i, f) == [bold |-> b, italic |-> i, flags |-> f]

BitSet(flags, bit) == (flags \div bit) % 2 = 1

get_font_info(span) ==
  LET is_bold == span.font.bold \/ BitSet(span.font.flags, 16)
      is_italic == span.font.italic \/ BitSet(span.font.flags, 2)
  IN [font |-> IF is_bold /\ is_italic THEN "helv-boldoblique"
               ELSE IF is_bold THEN "helv-bold"
               ELSE IF is_italic THEN "helv-oblique"
               ELSE "helv",
      size |-> Max(600, Min(span.size, 2400))]

calculate_text_dimensions(t, font_size) ==
  [w |-> (Len(t) * font_size * 6) \div 10,
   h |-> (font_size * 12) \div 10]

create_better_redaction_rectNoPadding(bbox, t, font_size) ==
  LET d == calculate_text_dimensions(t, font_size)
      width == Max(bbox.x1 - bbox.x0, d.w)
      height == Max(bbox.y1 - bbox.y0, d.h)
  IN Rect(bbox.x0, bbox.y0, bbox.x0 + width, bbox.y0 + height)

create_better_redaction_rect(bbox, t, font_size) ==
  LET d == calculate_text_dimensions(t, font_size)
      width == Max(bbox.x1 - bbox.x0, d.w)
      height == Max(bbox.y1 - bbox.y0, d.h)
      padding == 100
  IN Rect(bbox.x0 - padding, bbox.y0 - padding,
          bbox.x0 + width + padding, bbox.y0 + height + padding)

(***************************************************************************)
(* The strategy ladder of insert_text_with_fallbacks.                      *)
(***************************************************************************)
\* the bbox, widened and heightened when it is below the minimum size
original_rect(bbox, t) ==
  Rect(bbox.x0, bbox.y0,
       IF bbox.x1 - bbox.x0 < 1000
         THEN bbox.x0 + Max(5000, Len(t) * 800) ELSE bbox.x1,
       IF bbox.y1 - bbox.y0 < 800 THEN bbox.y0 + 1200 ELSE bbox.y1)

expanded_rect(bbox) ==
  Rect(bbox.x0, bbox.y0, bbox.x1 + 5000, bbox.y1 + 500)

Strategy(f, s, r) == [font |-> f, size |-> s, rect |-> r]

\* the ladder with the expanded rectangles tried first
strategiesExpandedFirst(bbox, t, font_info) ==
  LET o == original_rect(bbox, t)
      e == expanded_rect(bbox)
      f == font_info.font
      s == font_info.size
  IN << Strategy(f, s, e),
        Strategy("helv", s, e),
        Strategy("helv", 800, e),
        Strategy(f, s, o),
        Strategy(f, (s * 9) \div 10, o),
        Strategy(f, (s * 8) \div 10, o),
        Strategy("helv", s, o),
        Strategy("helv", (s * 9) \div 10, o),
        Strategy("helv", 800, o) >>

strategies(bbox, t, font_info) ==
  LET o == original_rect(bbox, t)
      e == expanded_rect(bbox)
      f == font_info.font
      s == font_info.size
  IN << Strategy(f, s, o),
        Strategy(f, (s * 9) \div 10, o),
        Strategy(f, (s * 8) \div 10, o),
        Strategy("helv", s, o),
        Strategy("helv", (s * 9) \div 10, o),
        Strategy("helv", 800, o),
        Strategy(f, s, e),
        Strategy("helv", s, e),
        Strategy("helv", 800, e) >>

\* no clamp: the attempt uses the size of the strategy
ClampSizeNone(size) == size

\* "Ensure size is reasonable"
ClampSize(size) ==
  IF size < 600 THEN 600 ELSE IF size > 2000 THEN 2000 ELSE size

\* the region of the page the point insertion writes to: 8pt text whose
\* base line starts at (x0, y0 + 10)
PointBox(bbox, t) ==
  Rect(bbox.x0, bbox.y0, bbox.x0 + Len(t) * 480, bbox.y0 + 1200)

\* a piece of text on a page: kind is "source" (of the input document),
\* "image_text" (drawn by the image pipeline) or "translated" (drawn by the
\* text phase); at is the bbox it was drawn for
Item(k, t, b, s, f, a) ==
  [kind |-> k, text |-> t, bbox |-> b, size |-> s, font |-> f, at |-> a]

\* page.apply_redactions(): the text that reaches into a registered
\* rectangle is removed
\* an apply_redactions that erases nothing
RedactedNothing(items, rects) == items

Redacted(items, rects) ==
  SelectSeq(items,
            LAMBDA it : ~\E i \in DOMAIN rects : Intersects(rects[i], it.bbox))

(***************************************************************************)
(* State.                                                                  *)
(***************************************************************************)
VARIABLES
  \* translate_text_conservative: one call and the backend it talks to
  tpc,          \* "idle", "entry", "loop", "returned"
  text,         \* the argument
  retries,      \* the retry bound
  attempt,      \* the loop variable
  result,       \* the value returned
  backendCalls, \* calls of client.chat.completions.create made by this call
  sleeps,       \* the arguments of time.sleep, in order
  backendFails, \* the backend raises on its first backendFails calls
  reply,        \* the content of the answer it gives after that
  \* insert_text_with_fallbacks: one call
  ipc,          \* "idle", "entry", "ladder", "point", "returned"
  iBbox,        \* the argument bbox
  iText,        \* the argument text
  iFont,        \* the argument font_info
  iKind,        \* who calls: "image_text" or "translated"
  strategyIdx,  \* the position in the strategy list
  iResult,      \* the value returned
  textboxFailed,\* insert_textbox attempts of this call that did not fit
  pointCalls,   \* insert_text calls of this call
  pointOutcome, \* what insert_text did: "none", "ok", "negative", "raise"
  drawnBy,      \* 0, the strategy (1..9) that drew, or 10 for insert_text
  \* the page being processed
  pageItems,    \* its text, in content order
  pageImages,   \* its embedded images
  annots,       \* the redaction annotations registered and not yet applied
  \* process_images_on_page
  image_list, imgIdx, english_text, translated_text, img_rect,
  \* translate_pdf_layout_preserving
  pc, numPages, pageNum, individual_spans, spanIdx, translation_tasks,
  taskIdx, redaction_rects, successful_insertions, saveCalls, closed,
  \* translate_pdf of v4.py: the spans it extracted, each with its translation
  text_elements,
  \* detect_background_color: one call
  bpc,          \* "idle", "render", "sample", "decide", "returned", "raised"
  bgVariant,    \* the file whose detect_background_color runs: "v4" or "v3"
  bgBbox,       \* the argument bbox
  pix,          \* the raster page.get_pixmap gave: its width and height
  sampleIdx,    \* the position in sample_coords
  colors,       \* the colours sampled so far
  bgResult,     \* the value returned
  \* the colour of the text of one element
  elColor,      \* el["color"], as the text dictionary gives it
  textColor,    \* the colour the text is drawn with, in bytes
  \* replace_image_with_translated of 1507v3.py
  fake_rect,    \* the local fake_rect: unbound, or what get_image_bbox gave
  \* the file processor service of aks/service.py
  DIRECTORY_PATH,  \* the folder that is polled, "" for the root of the share
  share,           \* the file share: folder and name to content, 0 for none
  processed_files, \* the module's set of names
  spc,             \* where the service is
  listing,         \* what is left of list_directories_and_files()
  name,            \* the item of the loop of process_files
  stage,           \* how far the try of process_files has come for name
  target_folder,   \* move_file's argument
  content,         \* move_file's local content
  moved,           \* the last call of move_file and its source content
  passMoves,       \* the calls of move_file of this pass, in order
  pending,         \* the .html names not yet processed when the pass began
  indexedOk,       \* the names for which index_document has returned
  passes,          \* the passes that have ended
  nextId,          \* the content of the next file that arrives
  \* what happened so far (history only; the program does not read it)
  processed,      \* the pages whose processing has begun
  pageRaised,     \* the text phase of this page ended in its handler
  imagesSeen,     \* the images of this page whose processing has begun
  imgStageFailed, \* a stage of an image of this page has failed
  failedSpans,    \* the spans of this page whose every backend attempt failed
  imagesReported, \* the images of this page reported "Successfully processed"
  applyCalls,     \* the calls of page.apply_redactions on this page
  tried           \* the strategies the running insertion has attempted

tvars ==
  <<tpc, text, retries, attempt, result, backendCalls, sleeps, backendFails,
    reply>>

ivars ==
  <<ipc, iBbox, iText, iFont, iKind, strategyIdx, iResult, textboxFailed,
    pointCalls, pointOutcome, drawnBy>>

pgvars == <<pageItems, pageImages, annots>>

imvars == <<image_list, imgIdx, english_text, translated_text, img_rect>>

txvars ==
  <<individual_spans, spanIdx, translation_tasks, taskIdx, redaction_rects,
    successful_insertions, text_elements>>

drvars == <<pc, numPages, pageNum, saveCalls, closed>>

hvars == <<processed, pageRaised, imagesSeen, imgStageFailed, failedSpans>>

bvars == <<bpc, bgVariant, bgBbox, pix, sampleIdx, colors, bgResult>>

logvars == <<imagesReported, applyCalls, tried>>

cvars == <<elColor, textColor>>

svars ==
  <<DIRECTORY_PATH, share, processed_files, spc, listing, name, stage,
    target_folder, content, moved, passMoves, pending, indexedOk, passes,
    nextId>>

\* everything but the file processor service
pdfvars ==
  <<tvars, ivars, pgvars, imvars, txvars, drvars, hvars, bvars, logvars,
    cvars, fake_rect>>

vars ==
  <<tvars, ivars, pgvars, imvars, txvars, drvars, hvars, bvars, logvars,
    cvars, fake_rect, svars>>

NoRect == Rect(0, 0, 0, 0)

NoFont == [font |-> "helv", size |-> 0]

NoRaster == [width |-> 0, height |-> 0]

\* a local variable that no assignment has reached
Unbound == [bound |-> "unbound", rect |-> NoRect]

ColourIdle ==
  /\ elColor = 0
  /\ textColor = <<>>

LogIdle ==
  /\ imagesReported = {}
  /\ applyCalls = 0
  /\ tried = <<>>

SamplerIdle ==
  /\ bpc = "idle"
  /\ bgVariant = "v4"
  /\ bgBbox = NoRect
  /\ pix = NoRaster
  /\ sampleIdx = 0
  /\ colors = <<>>
  /\ bgResult = <<>>

\* retries: int = 3
DefaultRetries == 3

(***************************************************************************)
(* translate_text_conservative.                                            *)
(***************************************************************************)
TranslatorIdle ==
  /\ tpc = "idle"
  /\ text = <<>>
  /\ retries = DefaultRetries
  /\ attempt = 0
  /\ result = <<>>
  /\ backendCalls = 0
  /\ sleeps = <<>>
  /\ backendFails = 0
  /\ reply = <<>>

\* the guards before the retry loop
TEntry ==
  /\ tpc = "entry"
  /\ IF ~should_translate_text(text)
       THEN /\ result' = text
            /\ tpc' = "returned"
     ELSE IF GlossaryHit(text)
       THEN /\ result' = GlossaryValue(Strip(Lower(text)))
            /\ tpc' = "returned"
     ELSE /\ result' = result
          /\ tpc' = "loop"
  /\ attempt' = 0
  /\ UNCHANGED <<text, retries, backendCalls, sleeps, backendFails, reply>>

\* whether the except branch sleeps before the next attempt
SleepsAfterAlways(a, r) == TRUE

SleepsAfter(a, r) == a < r - 1

\* the loop bound
MayAttemptUnbounded(a, r) == TRUE

MayAttempt(a, r) == a < r

\* an attempt whose backend call raises
TCallFails ==
  /\ tpc = "loop"
  /\ MayAttempt(attempt, retries)
  /\ backendCalls < backendFails
  /\ backendCalls' = backendCalls + 1
  /\ sleeps' = IF SleepsAfter(attempt, retries)
                 THEN Append(sleeps, Pow2(attempt))
                 ELSE sleeps
  /\ attempt' = attempt + 1
  /\ UNCHANGED <<tpc, text, retries, result, backendFails, reply>>

\* an attempt whose backend call answers
TCallSucceeds ==
  /\ tpc = "loop"
  /\ MayAttempt(attempt, retries)
  /\ backendCalls >= backendFails
  /\ backendCalls' = backendCalls + 1
  /\ result' = PostProcess(reply)
  /\ tpc' = "returned"
  /\ UNCHANGED <<text, retries, attempt, sleeps, backendFails, reply>>

\* the loop ran out: return text
TExhausted ==
  /\ tpc = "loop"
  /\ ~MayAttempt(attempt, retries)
  /\ result' = text
  /\ tpc' = "returned"
  /\ UNCHANGED <<text, retries, attempt, backendCalls, sleeps, backendFails,
                 reply>>

(***************************************************************************)
(* insert_text_with_fallbacks.  insert_textbox and insert_text are the     *)
(* renderer's: each call fits, does not fit, or raises.                    *)
(***************************************************************************)
InserterIdle ==
  /\ ipc = "idle"
  /\ iBbox = NoRect
  /\ iText = <<>>
  /\ iFont = NoFont
  /\ iKind = "none"
  /\ strategyIdx = 0
  /\ iResult = FALSE
  /\ textboxFailed = 0
  /\ pointCalls = 0
  /\ pointOutcome = "none"
  /\ drawnBy = 0

\* "if not text.strip(): return False", else the ladder starts
IEntry ==
  /\ ipc = "entry"
  /\ IF Strip(iText) = <<>>
       THEN ipc' = "returned" /\ strategyIdx' = strategyIdx
       ELSE ipc' = "ladder" /\ strategyIdx' = 1
  /\ iResult' = FALSE
  /\ tried' = <<>>
  /\ UNCHANGED <<iBbox, iText, iFont, iKind, textboxFailed, pointCalls,
                 pointOutcome, drawnBy, pageItems>>

\* one strategy of the ladder: insert_textbox at the clamped size
IStrategy ==
  /\ ipc = "ladder"
  /\ LET st == strategies(iBbox, iText, iFont)[strategyIdx] IN
     \/ \* result >= 0: the text is drawn, return True
        /\ pageItems' = Append(pageItems,
                               Item(iKind, iText, st.rect, ClampSize(st.size),
                                    RawFont(FALSE, FALSE, 0), iBbox))
        /\ drawnBy' = strategyIdx
        /\ iResult' = TRUE
        /\ ipc' = "returned"
        /\ UNCHANGED <<strategyIdx, textboxFailed>>
     \/ \* result < 0, or an exception: nothing is drawn, next strategy
        /\ \E outcome \in {"negative", "raise"} :
             textboxFailed' = textboxFailed + 1
        /\ IF strategyIdx < Len(strategies(iBbox, iText, iFont))
             THEN ipc' = ipc /\ strategyIdx' = strategyIdx + 1
             ELSE ipc' = "point" /\ strategyIdx' = strategyIdx
        /\ UNCHANGED <<pageItems, drawnBy, iResult>>
  /\ tried' = Append(tried, strategies(iBbox, iText, iFont)[strategyIdx])
  /\ UNCHANGED <<iBbox, iText, iFont, iKind, pointCalls, pointOutcome>>

\* what insert_text_with_fallbacks returns after insert_text
PointResultAlwaysTrue(outcome) == TRUE

PointResult(outcome) == outcome = "ok"

\* "Last resort": insert_text at a point
IPoint ==
  /\ ipc = "point"
  /\ pointCalls' = pointCalls + 1
  /\ \E outcome \in {"ok", "negative", "raise"} :
       /\ pointOutcome' = outcome
       /\ iResult' = PointResult(outcome)
       /\ IF outcome = "ok"
            THEN /\ pageItems' = Append(pageItems,
                                        Item(iKind, iText,
                                             PointBox(iBbox, iText), 800,
                                             RawFont(FALSE, FALSE, 0), iBbox))
                 /\ drawnBy' = 10
            ELSE UNCHANGED <<pageItems, drawnBy>>
  /\ ipc' = "returned"
  /\ UNCHANGED <<iBbox, iText, iFont, iKind, strategyIdx, textboxFailed>>

(***************************************************************************)
(* The documents of the model: every page is one of PageKinds.             *)
(***************************************************************************)
TxtCopay == <<"C","o","p","a","y">>

TxtCode == <<"H","5","6","1","9">>

TxtFee == <<"A","n","n","u","a","l"," ","f","e","e">>

TxtBlank == <<" ">>

\* a translation the backend gives, an answer that is nothing but quotes
TxtTarifa == <<"t","a","r","i","f","a"," ","a","n","u","a","l">>

TxtQuotes == <<"\"","\"">>

Plain == RawFont(FALSE, FALSE, 0)

Bold == RawFont(TRUE, FALSE, 16)

Span(t, b, s, f) == Item("source", t, b, s, f, b)

\* an embedded image: the text in its pixels and where the page shows it
Image(x, t, r) == [xref |-> x, ocr |-> t, rect |-> r]

ImgText == Image(7, TxtFee, Rect(1000, 20000, 9000, 26000))

ImgEmpty == Image(8, TxtBlank, Rect(1000, 30000, 9000, 36000))

\* an image in which nothing is recognised
ImgBlank == Image(6, <<>>, Rect(1000, 10000, 9000, 16000))

PageKinds ==
  { \* a glossary term and, right of it on the same line, a code
    [items |-> << Span(TxtCopay, Rect(1000, 1000, 4000, 2200), 1200, Bold),
                  Span(TxtCode, Rect(4000, 1000, 7000, 2200), 1200, Plain) >>,
     images |-> <<>>],
    \* one span of running text
    [items |-> << Span(TxtFee, Rect(1000, 3000, 7000, 4200), 1200, Plain) >>,
     images |-> <<>>],
    \* three images, a blank span and a span with an empty bbox
    [items |-> << Span(TxtBlank, Rect(1000, 1000, 1300, 2200), 1200, Plain),
                  Span(TxtFee, Rect(1000, 3000, 1000, 4200), 1200, Plain) >>,
     images |-> << ImgBlank, ImgText, ImgEmpty >>],
    \* a glossary term and, right of it on the same line, running text
    [items |-> << Span(TxtCopay, Rect(1000, 5000, 4000, 6200), 1200, Plain),
                  Span(TxtFee, Rect(4000, 5000, 10000, 6200), 1200, Plain) >>,
     images |-> <<>>] }

\* what the backend may answer for a text: a translation, the text itself,
\* or nothing but quotes
Replies(t) == {TxtTarifa, t, TxtQuotes}

\* a call of translate_text_conservative(t, target_lang) and a backend that
\* answers at once or fails on every attempt (the numbers of failures in
\* between are those of SpecTranslate)
TCall(t) ==
  /\ tpc' = "entry"
  /\ text' = t
  /\ retries' = DefaultRetries
  /\ attempt' = 0
  /\ result' = <<>>
  /\ backendCalls' = 0
  /\ sleeps' = <<>>
  /\ backendFails' \in {0, DefaultRetries}
  /\ reply' \in Replies(t)

TReset ==
  /\ tpc' = "idle"
  /\ text' = <<>>
  /\ retries' = DefaultRetries
  /\ attempt' = 0
  /\ result' = <<>>
  /\ backendCalls' = 0
  /\ sleeps' = <<>>
  /\ backendFails' = 0
  /\ reply' = <<>>

\* the call returned because every attempt failed
Exhausted == tpc = "returned" /\ attempt >= retries

\* a call of insert_text_with_fallbacks(page, bbox, t, font_info)
ICall(bbox, t, font_info, kind) ==
  /\ ipc' = "entry"
  /\ iBbox' = bbox
  /\ iText' = t
  /\ iFont' = font_info
  /\ iKind' = kind
  /\ strategyIdx' = 0
  /\ iResult' = FALSE
  /\ textboxFailed' = 0
  /\ pointCalls' = 0
  /\ pointOutcome' = "none"
  /\ drawnBy' = 0

IReset ==
  /\ ipc' = "idle"
  /\ tried' = <<>>
  /\ iBbox' = NoRect
  /\ iText' = <<>>
  /\ iFont' = NoFont
  /\ iKind' = "none"
  /\ strategyIdx' = 0
  /\ iResult' = FALSE
  /\ textboxFailed' = 0
  /\ pointCalls' = 0
  /\ pointOutcome' = "none"
  /\ drawnBy' = 0

(***************************************************************************)
(* translate_pdf_layout_preserving: the document and the page loop.        *)
(***************************************************************************)
\* fitz.open(input_pdf_path)
Open ==
  /\ pc = "start"
  /\ \/ pc' = "page_loop"
     \/ pc' = "open_failed"
  /\ UNCHANGED <<numPages, pageNum, saveCalls, closed>>
  /\ UNCHANGED <<tvars, ivars, pgvars, imvars, txvars, hvars>>
  /\ UNCHANGED bvars
  /\ UNCHANGED logvars
  /\ UNCHANGED cvars
  /\ UNCHANGED fake_rect
  /\ UNCHANGED svars

\* for page_num, page in enumerate(doc): the next page, or the end
NextPage ==
  /\ pc = "page_loop"
  /\ IF pageNum < numPages
       THEN /\ pageNum' = pageNum + 1
            /\ processed' = processed \cup {pageNum + 1}
            /\ \E k \in PageKinds :
                 /\ pageItems' = k.items
                 /\ pageImages' = k.images
            /\ pc' = "images"
            /\ annots' = <<>>
            /\ image_list' = <<>>
            /\ imgIdx' = 0
            /\ english_text' = <<>>
            /\ translated_text' = <<>>
            /\ img_rect' = NoRect
            /\ individual_spans' = <<>>
            /\ text_elements' = <<>>
            /\ spanIdx' = 0
            /\ translation_tasks' = <<>>
            /\ taskIdx' = 0
            /\ redaction_rects' = <<>>
            /\ successful_insertions' = 0
            /\ pageRaised' = FALSE
            /\ imagesSeen' = {}
            /\ imgStageFailed' = FALSE
            /\ failedSpans' = {}
            /\ imagesReported' = {}
            /\ applyCalls' = 0
       ELSE /\ pc' = "save"
            /\ UNCHANGED <<pageNum, pgvars, imvars, txvars, hvars>>
            /\ UNCHANGED <<imagesReported, applyCalls>>
  /\ UNCHANGED <<numPages, saveCalls, closed>>
  /\ UNCHANGED <<tvars, ivars, tried>>
  /\ UNCHANGED bvars
  /\ UNCHANGED cvars
  /\ UNCHANGED fake_rect
  /\ UNCHANGED svars

\* doc.save(output_pdf_path)
Save ==
  /\ pc = "save"
  /\ saveCalls' = saveCalls + 1
  /\ \/ pc' = "close"
     \/ pc' = "save_failed"
  /\ UNCHANGED <<numPages, pageNum, closed>>
  /\ UNCHANGED <<tvars, ivars, pgvars, imvars, txvars, hvars>>
  /\ UNCHANGED bvars
  /\ UNCHANGED logvars
  /\ UNCHANGED cvars
  /\ UNCHANGED fake_rect
  /\ UNCHANGED svars

\* doc.close()
Close ==
  /\ pc = "close"
  /\ closed' = TRUE
  /\ pc' = "done"
  /\ UNCHANGED <<numPages, pageNum, saveCalls>>
  /\ UNCHANGED <<tvars, ivars, pgvars, imvars, txvars, hvars>>
  /\ UNCHANGED bvars
  /\ UNCHANGED logvars
  /\ UNCHANGED cvars
  /\ UNCHANGED fake_rect
  /\ UNCHANGED svars

(***************************************************************************)
(* process_images_on_page, called in a try of its own: an exception that   *)
(* leaves it is logged and the text phase starts.                          *)
(***************************************************************************)
\* page.get_images(full=True)
GetImages ==
  /\ pc = "images"
  /\ \/ image_list' = pageImages /\ pc' = "img_loop"
     \/ image_list' = image_list /\ pc' = "extract"
  /\ UNCHANGED <<imgIdx, english_text, translated_text, img_rect>>
  /\ UNCHANGED <<numPages, pageNum, saveCalls, closed>>
  /\ UNCHANGED <<tvars, ivars, pgvars, txvars, hvars>>
  /\ UNCHANGED bvars
  /\ UNCHANGED logvars
  /\ UNCHANGED cvars
  /\ UNCHANGED fake_rect
  /\ UNCHANGED svars

\* for img_index, img in enumerate(image_list)
ImgLoop ==
  /\ pc = "img_loop"
  /\ IF imgIdx < Len(image_list)
       THEN /\ imgIdx' = imgIdx + 1
            /\ imagesSeen' = imagesSeen \cup {imgIdx + 1}
            /\ pc' = "img_extract"
       ELSE /\ pc' = "extract"
            /\ UNCHANGED <<imgIdx, imagesSeen>>
  /\ english_text' = <<>>
  /\ translated_text' = <<>>
  /\ img_rect' = NoRect
  /\ UNCHANGED <<image_list, processed, pageRaised, imgStageFailed,
                 failedSpans>>
  /\ UNCHANGED <<numPages, pageNum, saveCalls, closed>>
  /\ UNCHANGED <<tvars, ivars, pgvars, txvars>>
  /\ UNCHANGED bvars
  /\ UNCHANGED logvars
  /\ UNCHANGED cvars
  /\ UNCHANGED fake_rect
  /\ UNCHANGED svars

\* page.parent.extract_image(xref), or its handler: continue
ImgExtract ==
  /\ pc = "img_extract"
  /\ \/ pc' = "img_ocr" /\ imgStageFailed' = imgStageFailed
     \/ pc' = "img_loop" /\ imgStageFailed' = TRUE
  /\ UNCHANGED <<processed, pageRaised, imagesSeen, failedSpans>>
  /\ UNCHANGED <<numPages, pageNum, saveCalls, closed>>
  /\ UNCHANGED <<tvars, ivars, pgvars, imvars, txvars>>
  /\ UNCHANGED bvars
  /\ UNCHANGED logvars
  /\ UNCHANGED cvars
  /\ UNCHANGED fake_rect
  /\ UNCHANGED svars

\* "if not english_text", of the recognised text after strip()
NoTextDetectedNever(t) == FALSE

NoTextDetected(t) == t = <<>>

\* Image.open(...).convert("RGB") and ocr_with_easyocr(image).strip(), or
\* their handler; "if not english_text: continue"; then the translation
ImgOcr ==
  /\ pc = "img_ocr"
  /\ \/ /\ ~NoTextDetected(Strip(image_list[imgIdx].ocr))
        /\ english_text' = Strip(image_list[imgIdx].ocr)
        /\ TCall(Strip(image_list[imgIdx].ocr))
        /\ pc' = "img_translate"
        /\ imgStageFailed' = imgStageFailed
     \/ /\ NoTextDetected(Strip(image_list[imgIdx].ocr))
        /\ pc' = "img_loop"
        /\ UNCHANGED <<english_text, imgStageFailed, tvars>>
     \/ /\ pc' = "img_loop"
        /\ imgStageFailed' = TRUE
        /\ UNCHANGED <<english_text, tvars>>
  /\ UNCHANGED <<image_list, imgIdx, translated_text, img_rect>>
  /\ UNCHANGED <<processed, pageRaised, imagesSeen, failedSpans>>
  /\ UNCHANGED <<numPages, pageNum, saveCalls, closed>>
  /\ UNCHANGED <<ivars, pgvars, txvars>>
  /\ UNCHANGED bvars
  /\ UNCHANGED logvars
  /\ UNCHANGED cvars
  /\ UNCHANGED fake_rect
  /\ UNCHANGED svars

\* translated_text = translate_text_conservative(english_text, target_lang)
ImgTranslated ==
  /\ pc = "img_translate"
  /\ tpc = "returned"
  /\ translated_text' = result
  /\ imgStageFailed' = (imgStageFailed \/ Exhausted)
  /\ TReset
  /\ pc' = "img_rect1"
  /\ UNCHANGED <<image_list, imgIdx, english_text, img_rect>>
  /\ UNCHANGED <<processed, pageRaised, imagesSeen, failedSpans>>
  /\ UNCHANGED <<numPages, pageNum, saveCalls, closed>>
  /\ UNCHANGED <<ivars, pgvars, txvars>>
  /\ UNCHANGED bvars
  /\ UNCHANGED logvars
  /\ UNCHANGED cvars
  /\ UNCHANGED fake_rect
  /\ UNCHANGED svars

\* get_image_rect_comprehensive, method 1: page.get_image_bbox(xref) in a
\* try; a rectangle is returned at once
ImgRect1 ==
  /\ pc = "img_rect1"
  /\ \/ /\ img_rect' = image_list[imgIdx].rect
        /\ pc' = "img_insert"
        /\ imgStageFailed' = imgStageFailed
     \/ /\ img_rect' = img_rect
        /\ pc' = "img_rect2"
        /\ \E raised \in BOOLEAN : imgStageFailed' = (imgStageFailed \/ raised)
  /\ UNCHANGED <<image_list, imgIdx, english_text, translated_text>>
  /\ UNCHANGED <<processed, pageRaised, imagesSeen, failedSpans>>
  /\ UNCHANGED <<numPages, pageNum, saveCalls, closed>>
  /\ UNCHANGED <<tvars, ivars, pgvars, txvars>>
  /\ UNCHANGED bvars
  /\ UNCHANGED logvars
  /\ UNCHANGED cvars
  /\ UNCHANGED fake_rect
  /\ UNCHANGED svars

\* where an exception of get_image_rect_from_text_dict goes: no handler in
\* get_image_rect_comprehensive nor in process_images_on_page catches it,
\* the caller's does, and the text phase starts
TextDictRaiseTargetNextImage == "img_loop"

TextDictRaiseTarget == "extract"

\* method 2: get_image_rect_from_text_dict(page, xref), not in a try
ImgRect2 ==
  /\ pc = "img_rect2"
  /\ \/ /\ img_rect' = image_list[imgIdx].rect
        /\ pc' = "img_insert"
        /\ imgStageFailed' = imgStageFailed
     \/ /\ img_rect' = img_rect
        /\ pc' = "img_rect3"
        /\ imgStageFailed' = imgStageFailed
     \/ /\ img_rect' = img_rect
        /\ pc' = TextDictRaiseTarget
        /\ imgStageFailed' = TRUE
  /\ UNCHANGED <<image_list, imgIdx, english_text, translated_text>>
  /\ UNCHANGED <<processed, pageRaised, imagesSeen, failedSpans>>
  /\ UNCHANGED <<numPages, pageNum, saveCalls, closed>>
  /\ UNCHANGED <<tvars, ivars, pgvars, txvars>>
  /\ UNCHANGED bvars
  /\ UNCHANGED logvars
  /\ UNCHANGED cvars
  /\ UNCHANGED fake_rect
  /\ UNCHANGED svars

\* method 3: get_image_rect_from_drawings(page, xref), which catches
ImgRect3 ==
  /\ pc = "img_rect3"
  /\ \/ /\ img_rect' = image_list[imgIdx].rect
        /\ pc' = "img_insert"
        /\ imgStageFailed' = imgStageFailed
     \/ /\ img_rect' = img_rect
        /\ pc' = "img_rect4"
        /\ \E raised \in BOOLEAN : imgStageFailed' = (imgStageFailed \/ raised)
  /\ UNCHANGED <<image_list, imgIdx, english_text, translated_text>>
  /\ UNCHANGED <<processed, pageRaised, imagesSeen, failedSpans>>
  /\ UNCHANGED <<numPages, pageNum, saveCalls, closed>>
  /\ UNCHANGED <<tvars, ivars, pgvars, txvars>>
  /\ UNCHANGED bvars
  /\ UNCHANGED logvars
  /\ UNCHANGED cvars
  /\ UNCHANGED fake_rect
  /\ UNCHANGED svars

\* method 4: block matching in a try; then "if not img_rect: continue"
ImgRect4 ==
  /\ pc = "img_rect4"
  /\ \/ /\ img_rect' = image_list[imgIdx].rect
        /\ pc' = "img_insert"
        /\ imgStageFailed' = imgStageFailed
     \/ /\ img_rect' = img_rect
        /\ pc' = "img_loop"
        /\ \E raised \in BOOLEAN : imgStageFailed' = (imgStageFailed \/ raised)
  /\ UNCHANGED <<image_list, imgIdx, english_text, translated_text>>
  /\ UNCHANGED <<processed, pageRaised, imagesSeen, failedSpans>>
  /\ UNCHANGED <<numPages, pageNum, saveCalls, closed>>
  /\ UNCHANGED <<tvars, ivars, pgvars, txvars>>
  /\ UNCHANGED bvars
  /\ UNCHANGED logvars
  /\ UNCHANGED cvars
  /\ UNCHANGED fake_rect
  /\ UNCHANGED svars

\* insert_text_with_fallbacks(page, img_rect, translated_text, font_info)
ImgInsert ==
  /\ pc = "img_insert"
  /\ ICall(img_rect, translated_text, [font |-> "helv", size |-> 1000],
           "image_text")
  /\ pc' = "img_inserting"
  /\ UNCHANGED <<numPages, pageNum, saveCalls, closed>>
  /\ UNCHANGED <<tvars, pgvars, imvars, txvars, hvars>>
  /\ UNCHANGED bvars
  /\ UNCHANGED logvars
  /\ UNCHANGED cvars
  /\ UNCHANGED fake_rect
  /\ UNCHANGED svars

\* the call returned ("Successfully processed image"), or raised: continue
ImgInserted ==
  /\ pc = "img_inserting"
  /\ ipc = "returned"
  /\ IReset
  /\ pc' = "img_loop"
  /\ \E raised \in BOOLEAN :
       /\ imgStageFailed' = (imgStageFailed \/ raised)
       /\ imagesReported' = IF raised THEN imagesReported
                            ELSE imagesReported \cup {image_list[imgIdx].xref}
  /\ UNCHANGED <<processed, pageRaised, imagesSeen, failedSpans>>
  /\ UNCHANGED <<numPages, pageNum, saveCalls, closed>>
  /\ UNCHANGED <<tvars, pgvars, imvars, txvars>>
  /\ UNCHANGED bvars
  /\ UNCHANGED applyCalls
  /\ UNCHANGED cvars
  /\ UNCHANGED fake_rect
  /\ UNCHANGED svars

(***************************************************************************)
(* The text phase of a page, in one try: its handler prints the error and  *)
(* continues with the next page.                                           *)
(***************************************************************************)
\* where the handler of the text phase ("except Exception ... continue")
\* leaves the control
PageHandlerAbort == "aborted"

PageHandlerTarget == "page_loop"

\* the spans the extraction keeps: text that is not blank, a bbox that is
\* not empty
KeepsSpan(it) ==
  /\ it.text # <<>>
  /\ Strip(it.text) # <<>>
  /\ it.bbox.x1 > it.bbox.x0
  /\ it.bbox.y1 > it.bbox.y0

SpanOf(it) ==
  [text |-> it.text, bbox |-> it.bbox, font_info |-> get_font_info(it)]

ExtractedSpans(items) ==
  LET kept == SelectSeq(items, KeepsSpan)
  IN [i \in DOMAIN kept |-> SpanOf(kept[i])]

\* page.get_text("dict") and the loops over blocks, lines and spans
ExtractSpans ==
  /\ pc = "extract"
  /\ \/ /\ individual_spans' = ExtractedSpans(pageItems)
        /\ pc' = "span_loop"
        /\ pageRaised' = pageRaised
     \/ /\ individual_spans' = individual_spans
        /\ pc' = PageHandlerTarget
        /\ pageRaised' = TRUE
  /\ UNCHANGED <<text_elements, spanIdx, translation_tasks, taskIdx,
                 redaction_rects, successful_insertions>>
  /\ UNCHANGED <<processed, imagesSeen, imgStageFailed, failedSpans>>
  /\ UNCHANGED <<numPages, pageNum, saveCalls, closed>>
  /\ UNCHANGED <<tvars, ivars, pgvars, imvars>>
  /\ UNCHANGED bvars
  /\ UNCHANGED logvars
  /\ UNCHANGED cvars
  /\ UNCHANGED fake_rect
  /\ UNCHANGED svars

\* for span in individual_spans: translate_text_conservative(text, ...)
SpanLoop ==
  /\ pc = "span_loop"
  /\ IF spanIdx < Len(individual_spans)
       THEN /\ spanIdx' = spanIdx + 1
            /\ TCall(individual_spans[spanIdx + 1].text)
            /\ pc' = "span_translate"
       ELSE /\ pc' = "redact_loop"
            /\ UNCHANGED <<spanIdx, tvars>>
  /\ UNCHANGED <<text_elements, individual_spans, translation_tasks, taskIdx,
                 redaction_rects, successful_insertions>>
  /\ UNCHANGED <<numPages, pageNum, saveCalls, closed>>
  /\ UNCHANGED <<ivars, pgvars, imvars, hvars>>
  /\ UNCHANGED bvars
  /\ UNCHANGED logvars
  /\ UNCHANGED cvars
  /\ UNCHANGED fake_rect
  /\ UNCHANGED svars

Task(o, t, b, f) ==
  [original |-> o, translated |-> t, bbox |-> b, font_info |-> f]

\* "Only add to tasks if translation is different"
MakesTaskAlways(translated, original) == TRUE

MakesTask(translated, original) == translated # original

\* the call returned: a task is added or not; or the step raised
SpanTranslated ==
  /\ pc = "span_translate"
  /\ tpc = "returned"
  /\ \/ /\ translation_tasks' =
             IF MakesTask(result, individual_spans[spanIdx].text)
               THEN Append(translation_tasks,
                           Task(individual_spans[spanIdx].text, result,
                                individual_spans[spanIdx].bbox,
                                individual_spans[spanIdx].font_info))
               ELSE translation_tasks
        /\ failedSpans' =
             IF Exhausted
               THEN failedSpans \cup {individual_spans[spanIdx]}
               ELSE failedSpans
        /\ pc' = "span_loop"
        /\ pageRaised' = pageRaised
     \/ /\ pc' = PageHandlerTarget
        /\ pageRaised' = TRUE
        /\ UNCHANGED <<translation_tasks, failedSpans>>
  /\ TReset
  /\ UNCHANGED <<text_elements, individual_spans, spanIdx, taskIdx,
                 redaction_rects, successful_insertions>>
  /\ UNCHANGED <<processed, imagesSeen, imgStageFailed>>
  /\ UNCHANGED <<numPages, pageNum, saveCalls, closed>>
  /\ UNCHANGED <<ivars, pgvars, imvars>>
  /\ UNCHANGED bvars
  /\ UNCHANGED logvars
  /\ UNCHANGED cvars
  /\ UNCHANGED fake_rect
  /\ UNCHANGED svars

\* "First, collect all redaction rectangles": one task of the loop, its
\* rectangle computed from the ORIGINAL text, and page.add_redact_annot
RedactLoop ==
  /\ pc = "redact_loop"
  /\ IF taskIdx < Len(translation_tasks)
       THEN LET task == translation_tasks[taskIdx + 1]
                redact_rect ==
                  create_better_redaction_rect(task.bbox, task.original,
                                               task.font_info.size)
            IN \/ /\ redaction_rects' = Append(redaction_rects, redact_rect)
                  /\ annots' = Append(annots, redact_rect)
                  /\ taskIdx' = taskIdx + 1
                  /\ pc' = pc
                  /\ pageRaised' = pageRaised
               \/ /\ pc' = PageHandlerTarget
                  /\ pageRaised' = TRUE
                  /\ UNCHANGED <<redaction_rects, annots, taskIdx>>
       ELSE /\ pc' = "apply"
            /\ UNCHANGED <<redaction_rects, annots, taskIdx, pageRaised>>
  /\ UNCHANGED <<text_elements, individual_spans, spanIdx, translation_tasks,
                 successful_insertions>>
  /\ UNCHANGED <<processed, imagesSeen, imgStageFailed, failedSpans>>
  /\ UNCHANGED <<numPages, pageNum, saveCalls, closed>>
  /\ UNCHANGED <<tvars, ivars, pageItems, pageImages, imvars>>
  /\ UNCHANGED bvars
  /\ UNCHANGED logvars
  /\ UNCHANGED cvars
  /\ UNCHANGED fake_rect
  /\ UNCHANGED svars

\* page.apply_redactions()
Apply ==
  /\ pc = "apply"
  /\ \/ /\ pageItems' = Redacted(pageItems, annots)
        /\ annots' = <<>>
        /\ pc' = "insert_loop"
        /\ pageRaised' = pageRaised
     \/ /\ pc' = PageHandlerTarget
        /\ pageRaised' = TRUE
        /\ UNCHANGED <<pageItems, annots>>
  /\ taskIdx' = 0
  /\ successful_insertions' = 0
  /\ UNCHANGED <<text_elements, individual_spans, spanIdx, translation_tasks,
                 redaction_rects>>
  /\ UNCHANGED <<processed, imagesSeen, imgStageFailed, failedSpans>>
  /\ UNCHANGED <<numPages, pageNum, saveCalls, closed>>
  /\ UNCHANGED <<tvars, ivars, pageImages, imvars>>
  /\ UNCHANGED bvars
  /\ applyCalls' = applyCalls + 1
  /\ UNCHANGED <<imagesReported, tried>>
  /\ UNCHANGED cvars
  /\ UNCHANGED fake_rect
  /\ UNCHANGED svars

\* for task in translation_tasks: insert_text_with_fallbacks(...)
InsertLoop ==
  /\ pc = "insert_loop"
  /\ IF taskIdx < Len(translation_tasks)
       THEN /\ taskIdx' = taskIdx + 1
            /\ ICall(translation_tasks[taskIdx + 1].bbox,
                     translation_tasks[taskIdx + 1].translated,
                     translation_tasks[taskIdx + 1].font_info, "translated")
            /\ pc' = "inserting"
       ELSE /\ pc' = "page_loop"
            /\ UNCHANGED <<taskIdx, ivars>>
  /\ UNCHANGED <<text_elements, individual_spans, spanIdx, translation_tasks,
                 redaction_rects, successful_insertions>>
  /\ UNCHANGED <<numPages, pageNum, saveCalls, closed>>
  /\ UNCHANGED <<tvars, pgvars, imvars, hvars>>
  /\ UNCHANGED bvars
  /\ UNCHANGED logvars
  /\ UNCHANGED cvars
  /\ UNCHANGED fake_rect
  /\ UNCHANGED svars

\* the call returned: count it if it reports success; or the step raised
Inserted ==
  /\ pc = "inserting"
  /\ ipc = "returned"
  /\ \/ /\ successful_insertions' =
             IF iResult THEN successful_insertions + 1
                        ELSE successful_insertions
        /\ pc' = "insert_loop"
        /\ pageRaised' = pageRaised
     \/ /\ pc' = PageHandlerTarget
        /\ pageRaised' = TRUE
        /\ UNCHANGED successful_insertions
  /\ IReset
  /\ UNCHANGED <<text_elements, individual_spans, spanIdx, translation_tasks,
                 taskIdx, redaction_rects>>
  /\ UNCHANGED <<processed, imagesSeen, imgStageFailed, failedSpans>>
  /\ UNCHANGED <<numPages, pageNum, saveCalls, closed>>
  /\ UNCHANGED <<tvars, pgvars, imvars>>
  /\ UNCHANGED bvars
  /\ UNCHANGED <<imagesReported, applyCalls>>
  /\ UNCHANGED cvars
  /\ UNCHANGED fake_rect
  /\ UNCHANGED svars

(***************************************************************************)
(* v4.py: translate_text, shrink_font_to_fit and translate_pdf.  The       *)
(* colours of translate_pdf are not part of a page's text and are left out *)
(* of it; detect_background_color is modelled on its own further down.     *)
(***************************************************************************)
\* "if not text.strip(): return text", else the retry loop starts
translate_textEntry ==
  /\ tpc = "entry"
  /\ IF Strip(text) = <<>>
       THEN result' = text /\ tpc' = "returned"
       ELSE result' = result /\ tpc' = "loop"
  /\ attempt' = 0
  /\ UNCHANGED <<text, retries, backendCalls, sleeps, backendFails, reply>>

\* the except branch: the same code as in translate_text_conservative
translate_textFails == TCallFails

\* return response.choices[0].message.content.strip()
translate_textSucceeds ==
  /\ tpc = "loop"
  /\ MayAttempt(attempt, retries)
  /\ backendCalls >= backendFails
  /\ backendCalls' = backendCalls + 1
  /\ result' = Strip(reply)
  /\ tpc' = "returned"
  /\ UNCHANGED <<text, retries, attempt, sleeps, backendFails, reply>>

\* the loop ran out: return text
translate_textExhausted == TExhausted

get_font_type(font) ==
  IF font.bold \/ BitSet(font.flags, 16) THEN "bold"
  ELSE IF font.italic \/ BitSet(font.flags, 2) THEN "italic"
  ELSE IF font.flags = 4 THEN "light"
  ELSE "regular"

get_pymupdf_font(font_type) ==
  IF font_type = "bold" THEN "Times-Bold"
  ELSE IF font_type = "italic" THEN "Times-Italic"
  ELSE "Times-Roman"

\* int(x) of a length in hundredths of a point, in points
IntPt(x) == x \div 100

\* int(min_size), where min_size = max(4, original_size * 0.3)
MinSize(original_size) == IntPt(Max(400, (original_size * 3) \div 10))

\* range(int(original_size), int(min_size), -1) holds the size n
InRange(n, original_size) ==
  n <= IntPt(original_size) /\ n > MinSize(original_size)

\* shrink_font_to_fit: the first size of the loop, or none
ShrinkEntry ==
  /\ ipc = "entry"
  /\ strategyIdx' = IntPt(iFont.size)
  /\ ipc' = IF InRange(IntPt(iFont.size), iFont.size)
              THEN "probe" ELSE "fallback"
  /\ UNCHANGED <<iBbox, iText, iFont, iKind, iResult, textboxFailed,
                 pointCalls, pointOutcome, drawnBy, pageItems>>

\* one size of the loop: the invisible insert_textbox and, when the text
\* fits, the visible one; "except: continue" covers both
ShrinkProbe ==
  /\ ipc = "probe"
  /\ LET probe == Item("invisible", iText, iBbox, strategyIdx * 100,
                       RawFont(FALSE, FALSE, 0), iBbox)
         drawn == Item(iKind, iText, iBbox, strategyIdx * 100,
                       RawFont(FALSE, FALSE, 0), iBbox)
         next == IF InRange(strategyIdx - 1, iFont.size)
                   THEN "probe" ELSE "fallback"
     IN \/ \* result >= 0 and the visible insertion: return
           /\ pageItems' = Append(Append(pageItems, probe), drawn)
           /\ drawnBy' = strategyIdx
           /\ ipc' = "returned"
           /\ UNCHANGED <<strategyIdx, textboxFailed>>
        \/ \* result >= 0 and the visible insertion raises: next size
           /\ pageItems' = Append(pageItems, probe)
           /\ textboxFailed' = textboxFailed + 1
           /\ strategyIdx' = strategyIdx - 1
           /\ ipc' = next
           /\ UNCHANGED drawnBy
        \/ \* result < 0, or the probe raises: next size
           /\ \E outcome \in {"negative", "raise"} :
                textboxFailed' = textboxFailed + 1
           /\ strategyIdx' = strategyIdx - 1
           /\ ipc' = next
           /\ UNCHANGED <<pageItems, drawnBy>>
  /\ UNCHANGED <<iBbox, iText, iFont, iKind, iResult, pointCalls,
                 pointOutcome>>

\* "Fallback: insert with minimum size": the result is not looked at, an
\* exception is printed
ShrinkFallback ==
  /\ ipc = "fallback"
  /\ \E outcome \in {"ok", "negative", "raise"} :
       IF outcome = "ok"
         THEN /\ pageItems' = Append(pageItems,
                                     Item(iKind, iText, iBbox,
                                          MinSize(iFont.size) * 100,
                                          RawFont(FALSE, FALSE, 0), iBbox))
              /\ drawnBy' = MinSize(iFont.size)
         ELSE UNCHANGED <<pageItems, drawnBy>>
  /\ ipc' = "returned"
  /\ UNCHANGED <<iBbox, iText, iFont, iKind, strategyIdx, iResult,
                 textboxFailed, pointCalls, pointOutcome>>

\* the pages of the documents given to translate_pdf
V4PageKinds ==
  { \* one span of running text
    << Span(TxtFee, Rect(1000, 3000, 7000, 4200), 600, Plain) >>,
    \* a one-letter span, a span with an empty bbox, and a bold span
    << Span(<<"A">>, Rect(1000, 1000, 1600, 2200), 1200, Plain),
       Span(TxtFee, Rect(1000, 3000, 1000, 4200), 1200, Plain),
       Span(<<" ">> \o TxtCopay, Rect(1000, 5000, 4000, 6200), 500, Bold) >> }

\* os.path.exists(input_pdf_path) and fitz.open(input_pdf_path)
V4Open ==
  /\ pc = "start"
  /\ \/ pc' = "page_loop"
     \/ pc' = "open_failed"
  /\ UNCHANGED <<numPages, pageNum, saveCalls, closed>>
  /\ UNCHANGED <<tvars, ivars, pgvars, imvars, txvars, hvars>>
  /\ UNCHANGED bvars
  /\ UNCHANGED logvars
  /\ UNCHANGED cvars
  /\ UNCHANGED fake_rect
  /\ UNCHANGED svars

\* for page_num, page in enumerate(doc): the next page, or the end
V4NextPage ==
  /\ pc = "page_loop"
  /\ IF pageNum < numPages
       THEN /\ pageNum' = pageNum + 1
            /\ processed' = processed \cup {pageNum + 1}
            /\ pageItems' \in V4PageKinds
            /\ pc' = "v4_extract"
            /\ annots' = <<>>
            /\ text_elements' = <<>>
            /\ spanIdx' = 0
            /\ taskIdx' = 0
            /\ redaction_rects' = <<>>
            /\ successful_insertions' = 0
            /\ pageRaised' = FALSE
            /\ failedSpans' = {}
            /\ UNCHANGED <<pageImages, individual_spans, translation_tasks,
                           imagesSeen, imgStageFailed>>
       ELSE /\ pc' = "save"
            /\ UNCHANGED <<pageNum, pgvars, txvars, hvars>>
  /\ UNCHANGED <<numPages, saveCalls, closed>>
  /\ UNCHANGED <<tvars, ivars, imvars>>
  /\ UNCHANGED bvars
  /\ UNCHANGED logvars
  /\ UNCHANGED cvars
  /\ UNCHANGED fake_rect
  /\ UNCHANGED svars

\* where the handler of a page ("except Exception ... continue") leaves the
\* control
V4PageHandlerTarget == "page_loop"

\* blocks = page.get_text("dict")["blocks"]
V4Extract ==
  /\ pc = "v4_extract"
  /\ \/ pc' = "v4_span_loop" /\ pageRaised' = pageRaised
     \/ pc' = V4PageHandlerTarget /\ pageRaised' = TRUE
  /\ UNCHANGED <<processed, imagesSeen, imgStageFailed, failedSpans>>
  /\ UNCHANGED <<numPages, pageNum, saveCalls, closed>>
  /\ UNCHANGED <<tvars, ivars, pgvars, imvars, txvars>>
  /\ UNCHANGED bvars
  /\ UNCHANGED logvars
  /\ UNCHANGED cvars
  /\ UNCHANGED fake_rect
  /\ UNCHANGED svars

\* the spans the loop does not skip: text.strip() of two characters or
\* more, and a bbox that is not empty
V4KeepsSpan(it) ==
  /\ Len(Strip(it.text)) >= 2
  /\ it.bbox.x1 > it.bbox.x0
  /\ it.bbox.y1 > it.bbox.y0

\* the loops over blocks, lines and spans: the next span, skipped or given
\* to translate_text
V4SpanLoop ==
  /\ pc = "v4_span_loop"
  /\ IF spanIdx < Len(pageItems)
       THEN /\ spanIdx' = spanIdx + 1
            /\ IF V4KeepsSpan(pageItems[spanIdx + 1])
                 THEN /\ TCall(Strip(pageItems[spanIdx + 1].text))
                      /\ pc' = "v4_span_translate"
                 ELSE UNCHANGED <<pc, tvars>>
       ELSE /\ pc' = "v4_redact_loop"
            /\ UNCHANGED <<spanIdx, tvars>>
  /\ UNCHANGED <<text_elements, individual_spans, translation_tasks, taskIdx,
                 redaction_rects, successful_insertions>>
  /\ UNCHANGED <<numPages, pageNum, saveCalls, closed>>
  /\ UNCHANGED <<ivars, pgvars, imvars, hvars>>
  /\ UNCHANGED bvars
  /\ UNCHANGED logvars
  /\ UNCHANGED cvars
  /\ UNCHANGED fake_rect
  /\ UNCHANGED svars

Element(t, tr, b, s, ft) ==
  [text |-> t, translated |-> tr, bbox |-> b, size |-> s, font_type |-> ft]

\* translate_text returned: text_elements.append(...); or the step raised
V4SpanTranslated ==
  /\ pc = "v4_span_translate"
  /\ tpc = "returned"
  /\ LET span == pageItems[spanIdx] IN
     \/ /\ text_elements' =
             Append(text_elements,
                    Element(Strip(span.text), result, span.bbox, span.size,
                            get_font_type(span.font)))
        /\ failedSpans' =
             IF Exhausted
               THEN failedSpans \cup {[text |-> span.text, bbox |-> span.bbox]}
               ELSE failedSpans
        /\ pc' = "v4_span_loop"
        /\ pageRaised' = pageRaised
     \/ /\ pc' = V4PageHandlerTarget
        /\ pageRaised' = TRUE
        /\ UNCHANGED <<text_elements, failedSpans>>
  /\ TReset
  /\ UNCHANGED <<individual_spans, spanIdx, translation_tasks, taskIdx,
                 redaction_rects, successful_insertions>>
  /\ UNCHANGED <<processed, imagesSeen, imgStageFailed>>
  /\ UNCHANGED <<numPages, pageNum, saveCalls, closed>>
  /\ UNCHANGED <<ivars, pgvars, imvars>>
  /\ UNCHANGED bvars
  /\ UNCHANGED logvars
  /\ UNCHANGED cvars
  /\ UNCHANGED fake_rect
  /\ UNCHANGED svars

\* "Redact original text": a rectangle for EVERY element, its bbox with a
\* padding of 1, and page.add_redact_annot
V4RedactLoop ==
  /\ pc = "v4_redact_loop"
  /\ IF taskIdx < Len(text_elements)
       THEN LET bbox == text_elements[taskIdx + 1].bbox
                rect == Rect(bbox.x0 - 100, bbox.y0 - 100,
                             bbox.x1 + 100, bbox.y1 + 100)
            IN \/ /\ redaction_rects' = Append(redaction_rects, rect)
                  /\ annots' = Append(annots, rect)
                  /\ taskIdx' = taskIdx + 1
                  /\ pc' = pc
                  /\ pageRaised' = pageRaised
               \/ /\ pc' = V4PageHandlerTarget
                  /\ pageRaised' = TRUE
                  /\ UNCHANGED <<redaction_rects, annots, taskIdx>>
       ELSE /\ pc' = "v4_apply"
            /\ UNCHANGED <<redaction_rects, annots, taskIdx, pageRaised>>
  /\ UNCHANGED <<text_elements, individual_spans, spanIdx, translation_tasks,
                 successful_insertions>>
  /\ UNCHANGED <<processed, imagesSeen, imgStageFailed, failedSpans>>
  /\ UNCHANGED <<numPages, pageNum, saveCalls, closed>>
  /\ UNCHANGED <<tvars, ivars, pageItems, pageImages, imvars>>
  /\ UNCHANGED bvars
  /\ UNCHANGED logvars
  /\ UNCHANGED cvars
  /\ UNCHANGED fake_rect
  /\ UNCHANGED svars

\* page.apply_redactions()
V4Apply ==
  /\ pc = "v4_apply"
  /\ \/ /\ pageItems' = Redacted(pageItems, annots)
        /\ annots' = <<>>
        /\ pc' = "v4_insert_loop"
        /\ pageRaised' = pageRaised
     \/ /\ pc' = V4PageHandlerTarget
        /\ pageRaised' = TRUE
        /\ UNCHANGED <<pageItems, annots>>
  /\ taskIdx' = 0
  /\ successful_insertions' = 0
  /\ UNCHANGED <<text_elements, individual_spans, spanIdx, translation_tasks,
                 redaction_rects>>
  /\ UNCHANGED <<processed, imagesSeen, imgStageFailed, failedSpans>>
  /\ UNCHANGED <<numPages, pageNum, saveCalls, closed>>
  /\ UNCHANGED <<tvars, ivars, pageImages, imvars>>
  /\ UNCHANGED bvars
  /\ UNCHANGED logvars
  /\ UNCHANGED cvars
  /\ UNCHANGED fake_rect
  /\ UNCHANGED svars

\* "if not translated or translated == el['text']: continue"
V4Inserts(translated, original) ==
  translated # <<>> /\ translated # original

\* "Insert translated text": the next element, skipped or given to
\* shrink_font_to_fit with its bbox, or an exception of the step, which the
\* inner handler prints before the next element
V4InsertLoop ==
  /\ pc = "v4_insert_loop"
  /\ IF taskIdx < Len(text_elements)
       THEN LET el == text_elements[taskIdx + 1] IN
            /\ taskIdx' = taskIdx + 1
            /\ IF V4Inserts(el.translated, el.text)
                 THEN \/ /\ ICall(el.bbox, el.translated,
                                  [font |-> get_pymupdf_font(el.font_type),
                                   size |-> el.size],
                                  "translated")
                         /\ pc' = "v4_inserting"
                      \/ UNCHANGED <<pc, ivars>>
                 ELSE UNCHANGED <<pc, ivars>>
       ELSE /\ pc' = "page_loop"
            /\ UNCHANGED <<taskIdx, ivars>>
  /\ UNCHANGED <<text_elements, individual_spans, spanIdx, translation_tasks,
                 redaction_rects, successful_insertions>>
  /\ UNCHANGED <<numPages, pageNum, saveCalls, closed>>
  /\ UNCHANGED <<tvars, pgvars, imvars, hvars>>
  /\ UNCHANGED bvars
  /\ UNCHANGED logvars
  /\ UNCHANGED cvars
  /\ UNCHANGED fake_rect
  /\ UNCHANGED svars

\* shrink_font_to_fit returned: successful_insertions += 1
V4Inserted ==
  /\ pc = "v4_inserting"
  /\ ipc = "returned"
  /\ successful_insertions' = successful_insertions + 1
  /\ pc' = "v4_insert_loop"
  /\ IReset
  /\ UNCHANGED <<text_elements, individual_spans, spanIdx, translation_tasks,
                 taskIdx, redaction_rects>>
  /\ UNCHANGED <<numPages, pageNum, saveCalls, closed>>
  /\ UNCHANGED <<tvars, pgvars, imvars, hvars>>
  /\ UNCHANGED bvars
  /\ UNCHANGED <<imagesReported, applyCalls>>
  /\ UNCHANGED cvars
  /\ UNCHANGED fake_rect
  /\ UNCHANGED svars

\* doc.save(output_pdf_path)
V4Save ==
  /\ pc = "save"
  /\ saveCalls' = saveCalls + 1
  /\ \/ pc' = "close"
     \/ pc' = "save_failed"
  /\ UNCHANGED <<numPages, pageNum, closed>>
  /\ UNCHANGED <<tvars, ivars, pgvars, imvars, txvars, hvars>>
  /\ UNCHANGED bvars
  /\ UNCHANGED logvars
  /\ UNCHANGED cvars
  /\ UNCHANGED fake_rect
  /\ UNCHANGED svars

\* doc.close()
V4Close ==
  /\ pc = "close"
  /\ closed' = TRUE
  /\ pc' = "done"
  /\ UNCHANGED <<numPages, pageNum, saveCalls>>
  /\ UNCHANGED <<tvars, ivars, pgvars, imvars, txvars, hvars>>
  /\ UNCHANGED bvars
  /\ UNCHANGED logvars
  /\ UNCHANGED cvars
  /\ UNCHANGED fake_rect
  /\ UNCHANGED svars

(***************************************************************************)
(* detect_background_color of v4.py and of v3.py: one call.  A coordinate  *)
(* of the raster is a whole pixel; a colour component is kept in           *)
(* hundredths after round(c / 255, 2) and in tenths after round(c, 1).     *)
(***************************************************************************)
zoom == 2

\* int(v * zoom) of a length v in hundredths of a point: int truncates
\* towards zero
ToPixel(v) ==
  IF v >= 0 THEN (v * zoom) \div 100 ELSE 0 - (((0 - v) * zoom) \div 100)

PixelBox(b) ==
  [x0 |-> ToPixel(b.x0), y0 |-> ToPixel(b.y0),
   x1 |-> ToPixel(b.x1), y1 |-> ToPixel(b.y1)]

\* sample_coords of v4.py: the centre and the four corners, 5 pixels inside
sample_coordsV4(b) ==
  LET q == PixelBox(b) IN
  << <<(q.x0 + q.x1) \div 2, (q.y0 + q.y1) \div 2>>,
     <<q.x0 + 5, q.y0 + 5>>, <<q.x1 - 5, q.y0 + 5>>,
     <<q.x0 + 5, q.y1 - 5>>, <<q.x1 - 5, q.y1 - 5>> >>

\* sample_coords of v3.py: the four corners, a margin outside and clamped
\* to the raster on the side they lie on, and the centre
sample_coordsV3(b, p) ==
  LET q == PixelBox(b)
      margin == 4 * zoom
  IN
  << <<Max(0, q.x0 - margin), Max(0, q.y0 - margin)>>,
     <<Min(p.width - 1, q.x1 + margin), Max(0, q.y0 - margin)>>,
     <<Max(0, q.x0 - margin), Min(p.height - 1, q.y1 + margin)>>,
     <<Min(p.width - 1, q.x1 + margin), Min(p.height - 1, q.y1 + margin)>>,
     <<(q.x0 + q.x1) \div 2, (q.y0 + q.y1) \div 2>> >>

sample_coords(variant, b, p) ==
  IF variant = "v4" THEN sample_coordsV4(b) ELSE sample_coordsV3(b, p)

\* 0 <= x < pix.width and 0 <= y < pix.height; outside it Pixmap.pixel
\* raises ValueError
InRaster(xy, p) ==
  /\ 0 <= xy[1] /\ xy[1] < p.width
  /\ 0 <= xy[2] /\ xy[2] < p.height

\* round(c / 255, 2) of a byte, in hundredths (no byte lies on a tie)
Round2(c) == (c * 200 + 255) \div 510

\* round(c, 1) of a component in hundredths, in tenths; the components of
\* Pixels lie on no tie
Round1(h) == (h + 5) \div 10

\* the pixels a raster of the model holds: white, black and an orange
Pixels == { <<255, 255, 255>>, <<0, 0, 0>>, <<200, 128, 0>> }

White == <<10, 10, 10>>

rounded_colors(cs) ==
  [i \in DOMAIN cs |-> <<Round1(cs[i][1]), Round1(cs[i][2]), Round1(cs[i][3])>>]

CountOf(c, cs) == Cardinality({i \in DOMAIN cs : cs[i] = c})

\* Counter(cs).most_common(1)[0][0]: the most frequent element, the one met
\* first among equals
MostCommon(cs) ==
  LET best == CHOOSE i \in DOMAIN cs :
                /\ \A j \in DOMAIN cs : CountOf(cs[j], cs) <= CountOf(cs[i], cs)
                /\ \A j \in 1..(i - 1) : CountOf(cs[j], cs) < CountOf(cs[i], cs)
  IN cs[best]

\* where the outer "except Exception" leaves the call
detect_background_colorHandlerRaises == "raised"

detect_background_colorHandler == "returned"

\* a sample point outside the raster: v4.py tests the range and skips the
\* point, v3.py calls pix.pixel, which raises, and the bare except continues
SkipsSample(variant, xy, p) == ~InRaster(xy, p)

\* page.get_pixmap: gives the raster, or raises
BgRender ==
  /\ bpc = "render"
  /\ \/ /\ bpc' = "sample"
        /\ sampleIdx' = 1
        /\ UNCHANGED <<pix, bgResult>>
     \/ /\ bpc' = detect_background_colorHandler
        /\ bgResult' = White
        /\ pix' = NoRaster
        /\ UNCHANGED sampleIdx
  /\ UNCHANGED <<bgVariant, bgBbox, colors>>
  /\ UNCHANGED <<tvars, ivars, pgvars, imvars, txvars, drvars, hvars>>
  /\ UNCHANGED logvars
  /\ UNCHANGED cvars
  /\ UNCHANGED fake_rect
  /\ UNCHANGED svars

\* one turn of "for x, y in sample_coords"
BgSample ==
  /\ bpc = "sample"
  /\ LET coords == sample_coords(bgVariant, bgBbox, pix)
         xy == coords[sampleIdx]
     IN
     /\ IF SkipsSample(bgVariant, xy, pix)
          THEN colors' = colors
          ELSE \E px \in Pixels :
                 colors' = Append(colors,
                             <<Round2(px[1]), Round2(px[2]), Round2(px[3])>>)
     /\ IF sampleIdx = Len(coords)
          THEN bpc' = "decide" /\ sampleIdx' = sampleIdx
          ELSE bpc' = "sample" /\ sampleIdx' = sampleIdx + 1
  /\ UNCHANGED <<bgVariant, bgBbox, pix, bgResult>>
  /\ UNCHANGED <<tvars, ivars, pgvars, imvars, txvars, drvars, hvars>>
  /\ UNCHANGED logvars
  /\ UNCHANGED cvars
  /\ UNCHANGED fake_rect
  /\ UNCHANGED svars

\* "if colors:" and the default
BgDecide ==
  /\ bpc = "decide"
  /\ bgResult' = IF colors # <<>> THEN MostCommon(rounded_colors(colors))
                                  ELSE White
  /\ bpc' = "returned"
  /\ UNCHANGED <<bgVariant, bgBbox, pix, sampleIdx, colors>>
  /\ UNCHANGED <<tvars, ivars, pgvars, imvars, txvars, drvars, hvars>>
  /\ UNCHANGED logvars
  /\ UNCHANGED cvars
  /\ UNCHANGED fake_rect
  /\ UNCHANGED svars

\* convert_color_to_rgb of an integer colour, in bytes (a component c
\* stands for c / 255)
convert_color_to_rgb(color_value) ==
  IF color_value = 0 THEN <<0, 0, 0>>
  ELSE IF color_value = 1 \/ color_value >= 16777215 THEN <<255, 255, 255>>
  ELSE << (color_value \div 65536) % 256, (color_value \div 256) % 256,
          color_value % 256 >>

\* is_dark_color of a sampled background, in tenths: sum(rgb) / 3 < 0.4
\* (no background of Pixels lies on the threshold)
is_dark_color(rgb) == rgb[1] + rgb[2] + rgb[3] < 12

\* sum(color) / 3 of a colour in bytes against a threshold in tenths
MeanAbove(color, tenths) == 10 * (color[1] + color[2] + color[3]) > tenths * 765

MeanBelow(color, tenths) == 10 * (color[1] + color[2] + color[3]) < tenths * 765

\* "Adjust text color for better contrast" of translate_pdf in v4.py, and
\* "Force black if background is dark and text is light" of v3.py
AdjustedColor(variant, bg_color, color) ==
  IF variant = "v4"
    THEN IF is_dark_color(bg_color) /\ MeanAbove(color, 8)
           THEN <<255, 255, 255>>
         ELSE IF ~is_dark_color(bg_color) /\ MeanBelow(color, 2)
           THEN <<0, 0, 0>>
         ELSE color
    ELSE IF is_dark_color(bg_color) /\ MeanAbove(color, 8)
           THEN <<0, 0, 0>>
           ELSE color

\* the colour of the text of an element, after the call of
\* detect_background_color for its bbox
BgAdjust ==
  /\ bpc = "returned"
  /\ textColor' = AdjustedColor(bgVariant, bgResult,
                                convert_color_to_rgb(elColor))
  /\ bpc' = "adjusted"
  /\ UNCHANGED <<bgVariant, bgBbox, pix, sampleIdx, colors, bgResult, elColor>>
  /\ UNCHANGED <<tvars, ivars, pgvars, imvars, txvars, drvars, hvars>>
  /\ UNCHANGED logvars
  /\ UNCHANGED fake_rect
  /\ UNCHANGED svars

(***************************************************************************)
(* replace_image_with_translated of 1507v3.py, for one image of a page.    *)
(* The whole body is one try whose handler prints and returns.             *)
(***************************************************************************)
\* an image with its size in pixels
V3Image(x, t, r, w, h) ==
  [xref |-> x, ocr |-> t, rect |-> r, width |-> w, height |-> h]

\* get_image_rect_from_size(page, image, "top-left"): 72 / 150 of a point
\* for a pixel, from the point (50, 50)
get_image_rect_from_size(image) ==
  Rect(5000, 5000, 5000 + (image.width * 7200) \div 150,
       5000 + (image.height * 7200) \div 150)

\* where the handler of lines 482-483 leaves the call
V3HandlerTarget == "v3_returned"

\* extract_image, Image.open, ocr_with_easyocr(image).strip() and
\* "if not english_text: return"
V3ImgOcr ==
  /\ pc = "v3_image"
  /\ \/ /\ english_text' = Strip(image_list[imgIdx].ocr)
        /\ IF NoTextDetected(Strip(image_list[imgIdx].ocr))
             THEN pc' = "v3_returned" /\ UNCHANGED tvars
             ELSE pc' = "v3_translate"
                  /\ TCall(Strip(image_list[imgIdx].ocr))
        /\ imgStageFailed' = imgStageFailed
     \/ /\ pc' = V3HandlerTarget
        /\ imgStageFailed' = TRUE
        /\ UNCHANGED <<english_text, tvars>>
  /\ imagesSeen' = imagesSeen \cup {imgIdx}
  /\ UNCHANGED <<image_list, imgIdx, translated_text, img_rect>>
  /\ UNCHANGED <<processed, pageRaised, failedSpans>>
  /\ UNCHANGED <<numPages, pageNum, saveCalls, closed>>
  /\ UNCHANGED <<ivars, pgvars, txvars, bvars, logvars, cvars, fake_rect>>
  /\ UNCHANGED svars

\* translate_text_conservative has returned; then
\* draw_translated_text_on_image and save_debug_image, which may raise
V3ImgTranslated ==
  /\ pc = "v3_translate"
  /\ tpc = "returned"
  /\ translated_text' = result
  /\ TReset
  /\ \/ pc' = "v3_bbox" /\ imgStageFailed' = imgStageFailed
     \/ pc' = V3HandlerTarget /\ imgStageFailed' = TRUE
  /\ UNCHANGED <<image_list, imgIdx, english_text, img_rect>>
  /\ UNCHANGED <<processed, pageRaised, imagesSeen, failedSpans>>
  /\ UNCHANGED <<numPages, pageNum, saveCalls, closed>>
  /\ UNCHANGED <<ivars, pgvars, txvars, bvars, logvars, cvars, fake_rect>>
  /\ UNCHANGED svars

\* the inner try of lines 459-465 around page.get_image_bbox(img_name),
\* and "if not img_rect".  get_image_bbox gives one rectangle: rects[0] is
\* its first coordinate, of which only the truth value is read, and
\* img_rect holds the rectangle when that coordinate is not zero
V3ImgBbox ==
  /\ pc = "v3_bbox"
  /\ \/ \* a rectangle
        /\ fake_rect' = [bound |-> "rect", rect |-> image_list[imgIdx].rect]
        /\ img_rect' = IF image_list[imgIdx].rect.x0 # 0
                         THEN image_list[imgIdx].rect
                         ELSE get_image_rect_from_size(image_list[imgIdx])
     \/ \* nothing: a value that is false
        /\ fake_rect' = [bound |-> "nothing", rect |-> NoRect]
        /\ img_rect' = get_image_rect_from_size(image_list[imgIdx])
     \/ \* an exception: fake_rect is not assigned
        /\ fake_rect' = fake_rect
        /\ img_rect' = get_image_rect_from_size(image_list[imgIdx])
  /\ pc' = "v3_replace"
  /\ UNCHANGED <<image_list, imgIdx, english_text, translated_text>>
  /\ UNCHANGED <<numPages, pageNum, saveCalls, closed>>
  /\ UNCHANGED <<tvars, ivars, pgvars, txvars, hvars, bvars, logvars, cvars>>
  /\ UNCHANGED svars

\* lines 471-480: the rectangle is built from fake_rect, redacted, and the
\* translated raster is inserted in it.  An unbound fake_rect raises
\* NameError and one that holds nothing cannot be indexed or gives no
\* rectangle to insert in; the handler of line 482 takes both
V3ImgReplace ==
  /\ pc = "v3_replace"
  /\ \/ /\ fake_rect.bound = "rect"
        /\ pageItems' = Redacted(pageItems, <<fake_rect.rect>>)
        /\ pageImages' =
             [i \in DOMAIN pageImages |->
                IF pageImages[i].xref = image_list[imgIdx].xref
                  THEN [pageImages[i] EXCEPT !.ocr = translated_text,
                                             !.rect = fake_rect.rect]
                  ELSE pageImages[i]]
        /\ applyCalls' = applyCalls + 1
        /\ imagesReported' = imagesReported \cup {image_list[imgIdx].xref}
        /\ pc' = "v3_returned"
        /\ imgStageFailed' = imgStageFailed
     \/ /\ pc' = V3HandlerTarget
        /\ imgStageFailed' = TRUE
        /\ UNCHANGED <<pageItems, pageImages, applyCalls, imagesReported>>
  /\ UNCHANGED <<annots, tried>>
  /\ UNCHANGED <<processed, pageRaised, imagesSeen, failedSpans>>
  /\ UNCHANGED <<numPages, pageNum, saveCalls, closed>>
  /\ UNCHANGED <<tvars, ivars, imvars, txvars, bvars, cvars, fake_rect>>
  /\ UNCHANGED svars

(***************************************************************************)
(* aks/service.py: the file processor service.  service_managed_identity.py *)
(* has the same move_file and process_files over another client factory.   *)
(***************************************************************************)
\* the passes of the main loop that are followed
MaxPasses == 2

\* the contents that exist in all: one per file that is ever on the share
MaxFiles == 4

ERROR_FOLDER == "error"

PROCESSED_FOLDER == "processed"

Folders == {"", "in", ERROR_FOLDER, PROCESSED_FOLDER}

\* the names of the share, in the order of a listing
NameOrder ==
  << <<"a",".","h","t","m","l">>, <<"b",".","h","t","m","l">>,
     <<"h","t","m","l">> >>

Names == Range(NameOrder)

\* name.endswith(".html")
EndsWithHtml(n) ==
  /\ Len(n) >= 5
  /\ SubSeq(n, Len(n) - 4, Len(n)) = <<".","h","t","m","l">>

\* f"{DIRECTORY_PATH}/{file_name}" if DIRECTORY_PATH else file_name
src_path(file_name) == <<DIRECTORY_PATH, file_name>>

\* f"{target_folder}/{file_name}"
dest_path(folder, file_name) == <<folder, file_name>>

\* file_path=name of process_files: the name alone, from the root
file_path(n) == <<"", n>>

\* dir_client.list_directories_and_files() for DIRECTORY_PATH
ListDir ==
  SelectSeq(NameOrder, LAMBDA n : share[<<DIRECTORY_PATH, n>>] # 0)

NoMove == [name |-> <<>>, folder |-> "", stage |-> "none", had |-> 0]

ServiceIdle ==
  /\ DIRECTORY_PATH = ""
  /\ share = [p \in Folders \X Names |-> 0]
  /\ processed_files = {}
  /\ spc = "off"
  /\ listing = <<>>
  /\ name = <<>>
  /\ stage = "none"
  /\ target_folder = ""
  /\ content = 0
  /\ moved = NoMove
  /\ passMoves = <<>>
  /\ pending = {}
  /\ indexedOk = {}
  /\ passes = 0
  /\ nextId = 1

\* "continue" of the loop of process_files
SkipsAll(n) == ~EndsWithHtml(n)

Skips(n) == ~EndsWithHtml(n) \/ n \in processed_files

\* the folder the handler of process_files moves to
HandlerFolder == ERROR_FOLDER

\* where "except Exception" of move_file leaves the service: move_file
\* returns to the loop of process_files
MoveHandlerTarget == "loop"

\* a call of move_file(file_name, folder) up to the download: the paths, the
\* target directory (create_directory, whose exception is passed over) and
\* the two clients
MoveCall(file_name, folder, st) ==
  /\ target_folder' = folder
  /\ content' = 0
  /\ moved' = [name |-> file_name, folder |-> folder, stage |-> st,
               had |-> share[src_path(file_name)]]
  /\ passMoves' = Append(passMoves, [name |-> file_name, folder |-> folder,
                                     stage |-> st])
  /\ spc' = "mv_download"

\* a file is put on the share by its producer while the service sleeps
Arrive ==
  /\ spc = "sleep"
  /\ nextId <= MaxFiles
  /\ \E f \in {DIRECTORY_PATH, ""}, n \in Names :
       /\ share[<<f, n>>] = 0
       /\ share' = [share EXCEPT ![<<f, n>>] = nextId]
  /\ nextId' = nextId + 1
  /\ UNCHANGED <<DIRECTORY_PATH, processed_files, spc, listing, name, stage,
                 target_folder, content, moved, passMoves, pending,
                 indexedOk, passes>>
  /\ UNCHANGED pdfvars

\* process_files(): the directory client and the listing, which are in no
\* try
PassStart ==
  /\ spc = "sleep"
  /\ passes < MaxPasses
  /\ \/ /\ listing' = ListDir
        /\ pending' = {n \in Range(ListDir) :
                         EndsWithHtml(n) /\ n \notin processed_files}
        /\ spc' = "loop"
     \/ /\ spc' = "crashed"
        /\ UNCHANGED <<listing, pending>>
  /\ passMoves' = <<>>
  /\ UNCHANGED <<DIRECTORY_PATH, share, processed_files, name, stage,
                 target_folder, content, moved, indexedOk, passes, nextId>>
  /\ UNCHANGED pdfvars

\* for item in ...: the next name, passed over or taken into the try; after
\* the last one process_files returns and the main loop sleeps
LoopNext ==
  /\ spc = "loop"
  /\ IF listing = <<>>
       THEN /\ spc' = "sleep"
            /\ passes' = passes + 1
            /\ UNCHANGED <<listing, name, stage>>
       ELSE /\ name' = Head(listing)
            /\ listing' = Tail(listing)
            /\ stage' = "none"
            /\ spc' = IF Skips(Head(listing)) THEN "loop" ELSE "download"
            /\ passes' = passes
  /\ UNCHANGED <<DIRECTORY_PATH, share, processed_files, target_folder,
                 content, moved, passMoves, pending, indexedOk, nextId>>
  /\ UNCHANGED pdfvars

\* file_client.download_file().readall().decode("utf-8"), or the handler
TryDownload ==
  /\ spc = "download"
  /\ \/ /\ share[file_path(name)] # 0
        /\ stage' = "downloaded"
        /\ spc' = "parse"
        /\ UNCHANGED <<target_folder, content, moved, passMoves>>
     \/ /\ MoveCall(name, HandlerFolder, stage)
        /\ stage' = stage
  /\ UNCHANGED <<DIRECTORY_PATH, share, processed_files, listing, name,
                 pending, indexedOk, passes, nextId>>
  /\ UNCHANGED pdfvars

\* doc = parse_html(content), or the handler
TryParse ==
  /\ spc = "parse"
  /\ \/ /\ stage' = "parsed"
        /\ spc' = "index"
        /\ UNCHANGED <<target_folder, content, moved, passMoves>>
     \/ /\ MoveCall(name, HandlerFolder, stage)
        /\ stage' = stage
  /\ UNCHANGED <<DIRECTORY_PATH, share, processed_files, listing, name,
                 pending, indexedOk, passes, nextId>>
  /\ UNCHANGED pdfvars

\* index_document(doc), or the handler
TryIndex ==
  /\ spc = "index"
  /\ \/ /\ stage' = "indexed"
        /\ indexedOk' = indexedOk \cup {name}
        /\ spc' = "add"
        /\ UNCHANGED <<target_folder, content, moved, passMoves>>
     \/ /\ MoveCall(name, HandlerFolder, stage)
        /\ UNCHANGED <<stage, indexedOk>>
  /\ UNCHANGED <<DIRECTORY_PATH, share, processed_files, listing, name,
                 pending, passes, nextId>>
  /\ UNCHANGED pdfvars

\* processed_files.add(name) and move_file(name, PROCESSED_FOLDER)
TryAdd ==
  /\ spc = "add"
  /\ processed_files' = processed_files \cup {name}
  /\ MoveCall(name, PROCESSED_FOLDER, stage)
  /\ UNCHANGED <<DIRECTORY_PATH, share, listing, name, stage, pending,
                 indexedOk, passes, nextId>>
  /\ UNCHANGED pdfvars

\* content = src_client.download_file().readall()
MoveDownload ==
  /\ spc = "mv_download"
  /\ \/ /\ share[src_path(moved.name)] # 0
        /\ content' = share[src_path(moved.name)]
        /\ spc' = "mv_upload"
     \/ /\ spc' = MoveHandlerTarget
        /\ UNCHANGED content
  /\ UNCHANGED <<DIRECTORY_PATH, share, processed_files, listing, name,
                 stage, target_folder, moved, passMoves, pending, indexedOk,
                 passes, nextId>>
  /\ UNCHANGED pdfvars

\* dest_client.upload_file(content)
MoveUpload ==
  /\ spc = "mv_upload"
  /\ \/ /\ share' = [share EXCEPT
                       ![dest_path(target_folder, moved.name)] = content]
        /\ spc' = "mv_delete"
     \/ /\ spc' = MoveHandlerTarget
        /\ UNCHANGED share
  /\ UNCHANGED <<DIRECTORY_PATH, processed_files, listing, name, stage,
                 target_folder, content, moved, passMoves, pending,
                 indexedOk, passes, nextId>>
  /\ UNCHANGED pdfvars

\* src_client.delete_file() and the return, or the handler
MoveDelete ==
  /\ spc = "mv_delete"
  /\ \/ /\ share' = [share EXCEPT ![src_path(moved.name)] = 0]
        /\ spc' = "loop"
     \/ /\ spc' = MoveHandlerTarget
        /\ UNCHANGED share
  /\ UNCHANGED <<DIRECTORY_PATH, processed_files, listing, name, stage,
                 target_folder, content, moved, passMoves, pending,
                 indexedOk, passes, nextId>>
  /\ UNCHANGED pdfvars

(***************************************************************************)
(* Specifications.                                                         *)
(***************************************************************************)
\* most pages of a document of the model
MaxPages == 2

PipelineIdle ==
  /\ pageItems = <<>>
  /\ pageImages = <<>>
  /\ annots = <<>>
  /\ image_list = <<>>
  /\ imgIdx = 0
  /\ english_text = <<>>
  /\ translated_text = <<>>
  /\ img_rect = NoRect
  /\ pageNum = 0
  /\ individual_spans = <<>>
  /\ text_elements = <<>>
  /\ spanIdx = 0
  /\ translation_tasks = <<>>
  /\ taskIdx = 0
  /\ redaction_rects = <<>>
  /\ successful_insertions = 0
  /\ saveCalls = 0
  /\ closed = FALSE
  /\ processed = {}
  /\ pageRaised = FALSE
  /\ imagesSeen = {}
  /\ imgStageFailed = FALSE
  /\ failedSpans = {}

\* translate_pdf_layout_preserving on a document of 1..MaxPages pages
Init ==
  /\ pc = "start"
  /\ numPages \in 1..MaxPages
  /\ PipelineIdle
  /\ TranslatorIdle
  /\ InserterIdle
  /\ SamplerIdle
  /\ LogIdle
  /\ ColourIdle
  /\ fake_rect = Unbound
  /\ ServiceIdle

TEntryStep ==
  TEntry /\ UNCHANGED <<ivars, pgvars, imvars, txvars, drvars, hvars>>
  /\ UNCHANGED bvars
  /\ UNCHANGED logvars
  /\ UNCHANGED cvars
  /\ UNCHANGED fake_rect
  /\ UNCHANGED svars

TCallFailsStep ==
  TCallFails /\ UNCHANGED <<ivars, pgvars, imvars, txvars, drvars, hvars>>
  /\ UNCHANGED bvars
  /\ UNCHANGED logvars
  /\ UNCHANGED cvars
  /\ UNCHANGED fake_rect
  /\ UNCHANGED svars

TCallSucceedsStep ==
  TCallSucceeds /\ UNCHANGED <<ivars, pgvars, imvars, txvars, drvars, hvars>>
  /\ UNCHANGED bvars
  /\ UNCHANGED logvars
  /\ UNCHANGED cvars
  /\ UNCHANGED fake_rect
  /\ UNCHANGED svars

TExhaustedStep ==
  TExhausted /\ UNCHANGED <<ivars, pgvars, imvars, txvars, drvars, hvars>>
  /\ UNCHANGED bvars
  /\ UNCHANGED logvars
  /\ UNCHANGED cvars
  /\ UNCHANGED fake_rect
  /\ UNCHANGED svars

IEntryStep ==
  IEntry
    /\ UNCHANGED <<tvars, pageImages, annots, imvars, txvars, drvars, hvars>>
  /\ UNCHANGED bvars
  /\ UNCHANGED <<imagesReported, applyCalls>>
  /\ UNCHANGED cvars
  /\ UNCHANGED fake_rect
  /\ UNCHANGED svars

IStrategyStep ==
  IStrategy
    /\ UNCHANGED <<tvars, pageImages, annots, imvars, txvars, drvars, hvars>>
  /\ UNCHANGED bvars
  /\ UNCHANGED <<imagesReported, applyCalls>>
  /\ UNCHANGED cvars
  /\ UNCHANGED fake_rect
  /\ UNCHANGED svars

IPointStep ==
  IPoint
    /\ UNCHANGED <<tvars, pageImages, annots, imvars, txvars, drvars, hvars>>
  /\ UNCHANGED bvars
  /\ UNCHANGED logvars
  /\ UNCHANGED cvars
  /\ UNCHANGED fake_rect
  /\ UNCHANGED svars

Next ==
  \/ Open \/ NextPage \/ Save \/ Close
  \/ GetImages \/ ImgLoop \/ ImgExtract \/ ImgOcr \/ ImgTranslated
  \/ ImgRect1 \/ ImgRect2 \/ ImgRect3 \/ ImgRect4 \/ ImgInsert \/ ImgInserted
  \/ ExtractSpans \/ SpanLoop \/ SpanTranslated \/ RedactLoop \/ Apply
  \/ InsertLoop \/ Inserted
  \/ TEntryStep \/ TCallFailsStep \/ TCallSucceedsStep \/ TExhaustedStep
  \/ IEntryStep \/ IStrategyStep \/ IPointStep

Spec == Init /\ [][Next]_vars

\* the program is sequential and every call it makes returns or raises: a
\* step that can be taken is taken
FairSpec == Spec /\ WF_vars(Next)

(***************************************************************************)
(* translate_text_conservative alone, on texts enumerated character by     *)
(* character and on named texts, and on backends that fail a scripted      *)
(* number of times.                                                        *)
(***************************************************************************)
PolicyAlphabet == {"7", "$", ",", ".", "A", "a", " "}

RECURSIVE TextsOfLen(_)
TextsOfLen(n) ==
  IF n = 0 THEN {<<>>}
  ELSE {Append(t, c) : t \in TextsOfLen(n - 1), c \in PolicyAlphabet}

NamedTexts ==
  Abbreviations
    \cup {Lower(a) : a \in Abbreviations}
    \cup {<<" ">> \o Lower(a) \o <<" ">> : a \in Abbreviations}
    \cup { TxtCopay, TxtCode, TxtFee,
           <<" ","P","l","a","n"," ">>,
           <<"P","L","A","N">>,
           <<"$","1",",","2","0","0",".","5","0">>,
           <<"$","1",".","2",".","3">>,
           <<"1","2"," ","m","g">>,
           <<"R","x",":"," ","1","0">>,
           <<"p","l","a","n"," ","y","e","a","r">> }

\* the keys of the glossary as a page may write them: in lower case, with a
\* capital, in mixed case, and between white space
GlossaryTexts ==
  UNION { { e.key,
            <<UpperChar(Head(e.key))>> \o Tail(e.key),
            <<Head(e.key)>> \o Upper(Tail(e.key)),
            <<" ">> \o e.key \o <<" ">>,
            <<"\t", UpperChar(Head(e.key))>> \o Tail(e.key) \o <<"\n">> }
          : e \in common_terms }

PolicyTexts ==
  UNION {TextsOfLen(n) : n \in 0..MaxLen} \cup NamedTexts \cup GlossaryTexts

\* eligible texts the glossary does not hold, and one it holds
RetryTexts == {TxtFee, <<"a","b","c">>, <<"m","r","i"," ","s","c","a","n">>,
               TxtCopay}

RetryReplies ==
  { TxtTarifa,
    <<"\"">> \o TxtTarifa \o <<"\"">>,
    <<"T","r","a","n","s","l","a","t","i","o","n",":"," ">> \o TxtTarifa,
    TxtQuotes,
    <<"p","l","a","n"," ","\"","A","\""," ","a","n","u","a","l">>,
    <<"O","'","N","e","i","l">> }

InitTranslate ==
  /\ pc = "translate"
  /\ numPages = 0
  /\ PipelineIdle
  /\ InserterIdle
  /\ tpc = "entry"
  /\ attempt = 0
  /\ result = <<>>
  /\ backendCalls = 0
  /\ sleeps = <<>>
  /\ \/ /\ text \in PolicyTexts
        /\ retries = DefaultRetries
        /\ backendFails \in {0, DefaultRetries}
        /\ reply = TxtTarifa
     \/ /\ text \in RetryTexts
        /\ retries \in 0..MaxRetries
        /\ backendFails \in 0..MaxFails
        /\ reply \in RetryReplies
  /\ SamplerIdle
  /\ LogIdle
  /\ ColourIdle
  /\ fake_rect = Unbound
  /\ ServiceIdle

NextTranslate ==
  TEntryStep \/ TCallFailsStep \/ TCallSucceedsStep \/ TExhaustedStep

SpecTranslate == InitTranslate /\ [][NextTranslate]_vars

(***************************************************************************)
(* The redaction step alone, on one task of any text length, bbox and      *)
(* font size.                                                              *)
(***************************************************************************)
\* longest original or translated text of a task
MaxChars == 12

\* the text of n characters c
XText(c, n) == [i \in 1..n |-> c]

RectBoxes ==
  {Rect(x, 1000, x + w, 1000 + h) :
     x \in {0, 1000}, w \in {100, 3000, 9000}, h \in {100, 1200, 3000}}

\* span sizes below, in and above the range get_font_info clamps to
SpanSizes == {400, 1200, 3000}

InitRect ==
  /\ pc = "redact_loop"
  /\ numPages = 1
  /\ pageNum = 1
  /\ processed = {1}
  /\ \E n \in 3..MaxChars, m \in 3..MaxChars, b \in RectBoxes, s \in SpanSizes :
       LET it == Span(XText("x", n), b, s, Plain) IN
       /\ pageItems = <<it>>
       /\ individual_spans = <<SpanOf(it)>>
       /\ translation_tasks =
            <<Task(it.text, XText("y", m), b, get_font_info(it))>>
  /\ spanIdx = 1
  /\ text_elements = <<>>
  /\ pageImages = <<>>
  /\ annots = <<>>
  /\ image_list = <<>>
  /\ imgIdx = 0
  /\ english_text = <<>>
  /\ translated_text = <<>>
  /\ img_rect = NoRect
  /\ taskIdx = 0
  /\ redaction_rects = <<>>
  /\ successful_insertions = 0
  /\ saveCalls = 0
  /\ closed = FALSE
  /\ pageRaised = FALSE
  /\ imagesSeen = {}
  /\ imgStageFailed = FALSE
  /\ failedSpans = {}
  /\ TranslatorIdle
  /\ InserterIdle
  /\ SamplerIdle
  /\ LogIdle
  /\ ColourIdle
  /\ fake_rect = Unbound
  /\ ServiceIdle

NextRect == RedactLoop \/ Apply

SpecRect == InitRect /\ [][NextRect]_vars

(***************************************************************************)
(* translate_pdf of v4.py on a document of 1..MaxPages pages.              *)
(***************************************************************************)
translate_textEntryStep ==
  translate_textEntry
    /\ UNCHANGED <<ivars, pgvars, imvars, txvars, drvars, hvars>>
  /\ UNCHANGED bvars
  /\ UNCHANGED logvars
  /\ UNCHANGED cvars
  /\ UNCHANGED fake_rect
  /\ UNCHANGED svars

translate_textFailsStep ==
  translate_textFails
    /\ UNCHANGED <<ivars, pgvars, imvars, txvars, drvars, hvars>>
  /\ UNCHANGED bvars
  /\ UNCHANGED logvars
  /\ UNCHANGED cvars
  /\ UNCHANGED fake_rect
  /\ UNCHANGED svars

translate_textSucceedsStep ==
  translate_textSucceeds
    /\ UNCHANGED <<ivars, pgvars, imvars, txvars, drvars, hvars>>
  /\ UNCHANGED bvars
  /\ UNCHANGED logvars
  /\ UNCHANGED cvars
  /\ UNCHANGED fake_rect
  /\ UNCHANGED svars

translate_textExhaustedStep ==
  translate_textExhausted
    /\ UNCHANGED <<ivars, pgvars, imvars, txvars, drvars, hvars>>
  /\ UNCHANGED bvars
  /\ UNCHANGED logvars
  /\ UNCHANGED cvars
  /\ UNCHANGED fake_rect
  /\ UNCHANGED svars

ShrinkEntryStep ==
  ShrinkEntry
    /\ UNCHANGED <<tvars, pageImages, annots, imvars, txvars, drvars, hvars>>
  /\ UNCHANGED bvars
  /\ UNCHANGED logvars
  /\ UNCHANGED cvars
  /\ UNCHANGED fake_rect
  /\ UNCHANGED svars

ShrinkProbeStep ==
  ShrinkProbe
    /\ UNCHANGED <<tvars, pageImages, annots, imvars, txvars, drvars, hvars>>
  /\ UNCHANGED bvars
  /\ UNCHANGED logvars
  /\ UNCHANGED cvars
  /\ UNCHANGED fake_rect
  /\ UNCHANGED svars

ShrinkFallbackStep ==
  ShrinkFallback
    /\ UNCHANGED <<tvars, pageImages, annots, imvars, txvars, drvars, hvars>>
  /\ UNCHANGED bvars
  /\ UNCHANGED logvars
  /\ UNCHANGED cvars
  /\ UNCHANGED fake_rect
  /\ UNCHANGED svars

NextV4 ==
  \/ V4Open \/ V4NextPage \/ V4Save \/ V4Close
  \/ V4Extract \/ V4SpanLoop \/ V4SpanTranslated \/ V4RedactLoop \/ V4Apply
  \/ V4InsertLoop \/ V4Inserted
  \/ translate_textEntryStep \/ translate_textFailsStep
  \/ translate_textSucceedsStep \/ translate_textExhaustedStep
  \/ ShrinkEntryStep \/ ShrinkProbeStep \/ ShrinkFallbackStep

SpecV4 == Init /\ [][NextV4]_vars

\* the bounding boxes of the sampler: inside the page, across its lower
\* right corner, beyond it, above and left of it, and a tiny one
BgBoxes ==
  { Rect(1000, 1000, 4000, 2200), Rect(9000, 9000, 12000, 11000),
    Rect(20000, 20000, 23000, 21200), Rect(0 - 3000, 0 - 2000, 0 - 500, 0 - 100),
    Rect(150, 150, 250, 250), Rect(0, 0, 10000, 10000) }

\* the rasters: a page of 100 x 100 points and one of 10 x 5 points
Rasters == { [width |-> 100 * zoom, height |-> 100 * zoom],
             [width |-> 10 * zoom, height |-> 5 * zoom] }

\* the colours of the spans: black, white, the value 1, and three greys
ElColors == {0, 16777215, 1, 4210752, 8421504, 14737632}

InitSampler ==
  /\ pc = "sampler"
  /\ numPages = 0
  /\ PipelineIdle
  /\ TranslatorIdle
  /\ InserterIdle
  /\ bpc = "render"
  /\ bgVariant \in {"v4", "v3"}
  /\ bgBbox \in BgBoxes
  /\ pix \in Rasters
  /\ sampleIdx = 0
  /\ colors = <<>>
  /\ bgResult = <<>>
  /\ LogIdle
  /\ elColor \in ElColors
  /\ textColor = <<>>
  /\ fake_rect = Unbound
  /\ ServiceIdle

NextSampler == BgRender \/ BgSample \/ BgDecide \/ BgAdjust

SpecSampler == InitSampler /\ [][NextSampler]_vars

\* the calls of insert_text_with_fallbacks on its own: span sizes below,
\* inside and above the limits of get_font_info, boxes narrower than 10
\* points, lower than 8 points and neither
InsertSizes == {400, 600, 1200, 2000, 2200, 2400, 3000}

InsertBoxes ==
  {Rect(1000, 1000, 1000 + w, 1000 + h) :
     w \in {500, 1000, 3000}, h \in {500, 800, 1200}}

InitInsert ==
  /\ pc = "insert"
  /\ numPages = 0
  /\ PipelineIdle
  /\ TranslatorIdle
  /\ SamplerIdle
  /\ LogIdle
  /\ ipc = "entry"
  /\ iBbox \in InsertBoxes
  /\ iText \in {TxtTarifa, TxtBlank}
  /\ \E z \in InsertSizes, f \in {Plain, Bold} :
       iFont = get_font_info(Span(TxtFee, NoRect, z, f))
  /\ iKind = "translated"
  /\ strategyIdx = 0
  /\ iResult = FALSE
  /\ textboxFailed = 0
  /\ pointCalls = 0
  /\ pointOutcome = "none"
  /\ drawnBy = 0
  /\ ColourIdle
  /\ fake_rect = Unbound
  /\ ServiceIdle

NextInsert == IEntryStep \/ IStrategyStep \/ IPointStep

SpecInsert == InitInsert /\ [][NextInsert]_vars

\* the images given to replace_image_with_translated: with text, with
\* text at the left edge of the page, without text, and with text that
\* needs no translation
V3Images ==
  { V3Image(7, TxtFee, Rect(1000, 20000, 9000, 26000), 300, 150),
    V3Image(8, TxtFee, Rect(0, 20000, 9000, 26000), 300, 150),
    V3Image(9, TxtBlank, Rect(1000, 20000, 9000, 26000), 300, 150),
    V3Image(10, TxtTarifa, Rect(3000, 3000, 12000, 9000), 600, 400) }

InitV3Image ==
  /\ pc = "v3_image"
  /\ numPages = 1
  /\ pageNum = 1
  /\ processed = {1}
  /\ \E im \in V3Images :
       /\ pageImages = <<im>>
       /\ image_list = <<im>>
  /\ imgIdx = 1
  /\ pageItems = <<>>
  /\ annots = <<>>
  /\ english_text = <<>>
  /\ translated_text = <<>>
  /\ img_rect = NoRect
  /\ individual_spans = <<>>
  /\ text_elements = <<>>
  /\ spanIdx = 0
  /\ translation_tasks = <<>>
  /\ taskIdx = 0
  /\ redaction_rects = <<>>
  /\ successful_insertions = 0
  /\ saveCalls = 0
  /\ closed = FALSE
  /\ pageRaised = FALSE
  /\ imagesSeen = {}
  /\ imgStageFailed = FALSE
  /\ failedSpans = {}
  /\ TranslatorIdle
  /\ InserterIdle
  /\ SamplerIdle
  /\ ColourIdle
  /\ LogIdle
  /\ fake_rect = Unbound
  /\ ServiceIdle

NextV3Image ==
  \/ V3ImgOcr \/ V3ImgTranslated \/ V3ImgBbox \/ V3ImgReplace
  \/ TEntryStep \/ TCallFailsStep \/ TCallSucceedsStep \/ TExhaustedStep

SpecV3Image == InitV3Image /\ [][NextV3Image]_vars

\* the values of the environment variable DIRECTORY_PATH
DirectoryPaths == {"", "in", ERROR_FOLDER}

\* the service starts on a share whose polled folder holds some of the names
InitService ==
  /\ pc = "service"
  /\ numPages = 0
  /\ PipelineIdle
  /\ TranslatorIdle
  /\ InserterIdle
  /\ SamplerIdle
  /\ LogIdle
  /\ ColourIdle
  /\ fake_rect = Unbound
  /\ DIRECTORY_PATH \in DirectoryPaths
  /\ \E held \in SUBSET (1..Len(NameOrder)) :
       share = [p \in Folders \X Names |->
                  IF p[1] = DIRECTORY_PATH
                     /\ \E i \in held : NameOrder[i] = p[2]
                    THEN CHOOSE i \in held : NameOrder[i] = p[2]
                    ELSE 0]
  /\ nextId = Len(NameOrder) + 1
  /\ processed_files = {}
  /\ spc = "sleep"
  /\ listing = <<>>
  /\ name = <<>>
  /\ stage = "none"
  /\ target_folder = ""
  /\ content = 0
  /\ moved = NoMove
  /\ passMoves = <<>>
  /\ pending = {}
  /\ indexedOk = {}
  /\ passes = 0

NextService ==
  \/ Arrive \/ PassStart \/ LoopNext
  \/ TryDownload \/ TryParse \/ TryIndex \/ TryAdd
  \/ MoveDownload \/ MoveUpload \/ MoveDelete

SpecService == InitService /\ [][NextService]_vars

(***************************************************************************)
(* Claims.                                                                 *)
(***************************************************************************)
\* the texts claim C1 is about, as the claim lists them
C1_Listed(t) ==
  LET s == Strip(t) IN
  \/ s = <<>>
  \/ MatchesNumber(s)
  \/ MatchesCurrency(s)
  \/ MatchesCode(s)
  \/ Len(s) <= 2
  \/ Upper(s) \in Abbreviations
  \/ AlphaCount(s) < 3

\* C1: for every text that, trimmed, is empty, a number, a currency amount,
\* a code, of length <= 2, one of the abbreviations in any letter case, or
\* has fewer than 3 letters, translate_text_conservative makes no backend
\* call and returns the input itself.
C1_IneligibleUnchanged ==
  C1_Listed(text) =>
    /\ backendCalls = 0
    /\ tpc = "returned" => result = text

\* C1 happens: an abbreviation in lower case between blanks was returned
C1_Witness ==
  /\ tpc = "returned"
  /\ text = <<" ","m","r","i"," ">>
  /\ result = text
  /\ backendCalls = 0

\* C2: for eligible text the glossary does not hold and a backend that fails
\* backendFails times and then answers, the call makes backendFails + 1
\* backend calls and returns the post-processed answer when
\* backendFails < retries, and makes retries calls and returns the text
\* itself otherwise; it never makes more than retries calls.
C2_RetryBound ==
  (should_translate_text(text) /\ ~GlossaryHit(text)) =>
    /\ backendCalls <= retries
    /\ tpc = "returned" =>
         IF backendFails < retries
           THEN backendCalls = backendFails + 1 /\ result = PostProcess(reply)
           ELSE backendCalls = retries /\ result = text

\* C2 happens: two failures, then an answer at the third and last attempt
C2_Witness ==
  /\ tpc = "returned"
  /\ should_translate_text(text) /\ ~GlossaryHit(text)
  /\ retries = 3
  /\ backendFails = 2
  /\ backendCalls = 3
  /\ result = TxtTarifa
  /\ reply # TxtTarifa

\* C4: the rectangle create_better_redaction_rect returns for a task
\* contains the bbox of the task's span with room on all four sides.
C4_RectStrictlyContainsBbox ==
  \A i \in DOMAIN redaction_rects :
    StrictlyContains(redaction_rects[i], translation_tasks[i].bbox)

\* C4 happens: a rectangle was made for a bbox narrower than the estimate
\* of its text, and for a font size that get_font_info clamped
C4_Witness ==
  /\ Len(redaction_rects) = 1
  /\ translation_tasks[1].bbox.x1 - translation_tasks[1].bbox.x0 = 100
  /\ translation_tasks[1].font_info.size = 2400
  /\ redaction_rects[1].x1 > translation_tasks[1].bbox.x1 + 100

\* the box the translated text of a task is estimated to fill, at the
\* top-left corner of the bbox
TranslatedBox(task) ==
  LET d == calculate_text_dimensions(task.translated, task.font_info.size)
  IN Rect(task.bbox.x0, task.bbox.y0,
          task.bbox.x0 + d.w, task.bbox.y0 + d.h)

\* r contains b with a padding of at least 1 point on every side
ContainsPadded(r, b) ==
  /\ r.x0 <= b.x0 - 100
  /\ r.y0 <= b.y0 - 100
  /\ r.x1 >= b.x1 + 100
  /\ r.y1 >= b.y1 + 100

\* C5: the redaction rectangle registered for a task contains, with a
\* padding of at least 1 point, the estimated box of the task's TRANSLATED
\* text (0.6 x size per character wide, 1.2 x size high).
C5_RectCoversTranslated ==
  \A i \in DOMAIN redaction_rects :
    ContainsPadded(redaction_rects[i], TranslatedBox(translation_tasks[i]))

\* the text of a span is on the page, where the span was
Present(t, bbox) ==
  \E i \in DOMAIN pageItems :
    pageItems[i].text = t /\ pageItems[i].bbox = bbox

\* the translated text of a task has been drawn for the bbox of the task
Drawn(task) ==
  \E i \in DOMAIN pageItems :
    /\ pageItems[i].kind = "translated"
    /\ pageItems[i].text = task.translated
    /\ pageItems[i].at = task.bbox

\* the page loop is back at its head after a page
PageProcessed == pc = "page_loop" /\ pageNum >= 1

\* C3: a span whose every backend attempt failed still has its original
\* text on the page when the page has been processed.
C3_FailedSpanKept ==
  (PageProcessed /\ ~pageRaised) =>
    \A sp \in failedSpans : Present(sp.text, sp.bbox)

\* C6: when a page has been processed, every task whose original text has
\* been erased has its translated text drawn on the page.
C6_ErasedTaskIsDrawn ==
  (PageProcessed /\ ~pageRaised) =>
    \A i \in DOMAIN translation_tasks :
      ~Present(translation_tasks[i].original, translation_tasks[i].bbox)
        => Drawn(translation_tasks[i])

\* every textbox strategy of the ladder was tried and failed
LadderFailed == textboxFailed = Len(strategies(iBbox, iText, iFont))

C8_LaterPagesProcessed ==
  \A j \in 1..MaxPages :
    []((pageRaised /\ pageNum < j /\ j <= numPages) => <>(j \in processed))

\* C8 happens: the handler has run on a page that is not the last one
C8_Witness ==
  /\ pageRaised
  /\ pc = "page_loop"
  /\ pageNum < numPages

\* C9: when the text phase of a page starts after a stage of one of its
\* images has failed, every image of the page has been processed.
C9_ImageFailureIsolated ==
  (pc = "extract" /\ imgStageFailed) => imagesSeen = DOMAIN image_list

\* C10: once the document is open, save is eventually invoked.
C10_EventuallySaves == [](pc = "page_loop" => <>(saveCalls = 1))

\* C10 happens: save was invoked after a page whose image pipeline and
\* text phase both failed
C10_Witness ==
  /\ saveCalls = 1
  /\ pageRaised
  /\ imgStageFailed

\* C11: a span whose text is not eligible for translation is left alone: no
\* redaction rectangle of its page reaches into its bbox, no text is
\* inserted for it, and its text stays on the page.
C11_IneligibleSpanUntouched ==
  \A i \in DOMAIN individual_spans :
    ~should_translate_text(individual_spans[i].text) =>
      /\ \A j \in DOMAIN redaction_rects :
           ~Intersects(redaction_rects[j], individual_spans[i].bbox)
      /\ \A k \in DOMAIN pageItems :
           pageItems[k].kind = "translated"
             => pageItems[k].at # individual_spans[i].bbox
      /\ Present(individual_spans[i].text, individual_spans[i].bbox)

\* C12: for an eligible text of at most two words whose trimmed form in
\* lower case is a key of the glossary, translate_text_conservative returns
\* the glossary's value for the key and makes no backend call.
C12_GlossaryValue ==
  ( /\ should_translate_text(text)
    /\ WordCount(text) <= 2
    /\ InGlossary(Strip(Lower(text))) ) =>
    /\ backendCalls = 0
    /\ tpc = "returned" => result = GlossaryValue(Strip(Lower(text)))

\* C12 happens: "Year" with a capital, after a tab and before a line break,
\* was answered from the glossary
C12_Witness ==
  /\ tpc = "returned"
  /\ text = <<"\t","Y","e","a","r","\n">>
  /\ result = <<"a","n~","o">>
  /\ backendCalls = 0

\* nothing is recognised in the image the loop is at
EmptyImage ==
  /\ imgIdx \in DOMAIN image_list
  /\ Strip(image_list[imgIdx].ocr) = <<>>

\* C13: for an image whose recognised text is empty after trimming, the
\* stages after the recognition never run (no translation call, no lookup
\* of a rectangle, no insertion); the step taken at the recognition goes to
\* the head of the image loop and leaves the translator, the inserter and
\* the page as they are; the next image, if there is one, is processed,
\* and the text phase of the page starts.
C13_EmptyImageSkipped ==
  /\ [](EmptyImage =>
          pc \notin {"img_translate", "img_rect1", "img_rect2", "img_rect3",
                     "img_rect4", "img_insert", "img_inserting"})
  /\ [][(pc = "img_ocr" /\ EmptyImage) =>
          (pc' = "img_loop" /\ UNCHANGED <<tvars, ivars, pgvars>>)]_vars
  /\ (pc = "img_ocr" /\ EmptyImage /\ imgIdx < Len(image_list))
       ~> (/\ pc = "img_extract"
           /\ imgIdx > 1
           /\ Strip(image_list[imgIdx - 1].ocr) = <<>>)
  /\ (pc = "img_ocr" /\ EmptyImage) ~> (pc = "extract")

\* C13 happens: the image with no text was passed, the page is as it was,
\* and the next image is being processed
C13_Witness ==
  /\ pc = "img_extract"
  /\ imgIdx = 2
  /\ image_list[1] = ImgBlank
  /\ tpc = "idle"
  /\ ipc = "idle"
  /\ \A i \in DOMAIN pageItems : pageItems[i].kind = "source"

\* C14: detect_background_color never raises, whatever the bounding box,
\* sample points outside the raster and a failing render included, and it
\* returns white when no sample point gave a pixel.
C14_NeverRaisesDefaultWhite ==
  /\ bpc # "raised"
  /\ (bpc = "returned" /\ colors = <<>>) => bgResult = White
  /\ bpc = "returned" => Len(bgResult) = 3
  /\ ( /\ bpc = "returned"
       /\ pix # NoRaster
       /\ \A i \in 1..5 :
            ~InRaster(sample_coords(bgVariant, bgBbox, pix)[i], pix) )
       => bgResult = White

\* every sample point of the call lay outside the raster
C14_Witness ==
  /\ bpc = "returned"
  /\ pix # NoRaster
  /\ colors = <<>>
  /\ bgResult = White
  /\ \A i \in 1..5 : ~InRaster(sample_coords(bgVariant, bgBbox, pix)[i], pix)

C16_Listed(i) ==
  [font |-> IF i \in {1, 2, 3, 7} THEN iFont.font ELSE "helv",
   size |-> CASE i \in {1, 4, 7, 8} -> iFont.size
              [] i \in {2, 5} -> (iFont.size * 9) \div 10
              [] i = 3 -> (iFont.size * 8) \div 10
              [] i \in {6, 9} -> 800,
   rect |-> IF i <= 6 THEN original_rect(iBbox, iText)
                      ELSE expanded_rect(iBbox)]

\* C16: insert_text_with_fallbacks tries the strategies strictly in the
\* listed order (the span's font at 1.0, 0.9 and 0.8 of its size, the
\* generic font at 1.0, 0.9 and at 8 points, then in the expanded rectangle
\* the span's font at 1.0, the generic font at 1.0 and at 8 points) and
\* stops at the first one that fits: after a fit no later strategy and no
\* point insertion is attempted, and at most one attempt of a call draws.
C16_StrictOrderFirstFit ==
  /\ [](/\ Len(tried) <= 9
        /\ \A i \in DOMAIN tried : tried[i] = C16_Listed(i)
        /\ drawnBy \in 1..9 =>
             /\ ipc = "returned"
             /\ Len(tried) = drawnBy
             /\ pointCalls = 0
        /\ pointCalls > 0 => (Len(tried) = 9 /\ drawnBy \in {0, 10})
        /\ ipc = "point" => (Len(tried) = 9 /\ drawnBy = 0))
  /\ [][tried' # tried =>
          \/ tried' = <<>>
          \/ /\ drawnBy = 0
             /\ pointCalls = 0
             /\ tried' = Append(tried, C16_Listed(Len(tried) + 1))]_vars
  /\ [][(ipc \in {"ladder", "point"} /\ pageItems' # pageItems) =>
          /\ drawnBy = 0
          /\ drawnBy' # 0
          /\ ipc' = "returned"
          /\ \E it \in {Item(iKind, iText, r, z, RawFont(FALSE, FALSE, 0),
                             iBbox) :
                          r \in {original_rect(iBbox, iText),
                                 expanded_rect(iBbox),
                                 PointBox(iBbox, iText)},
                          z \in 600..2000} :
               pageItems' = Append(pageItems, it)]_vars

\* the span's bold font failed three times and the generic font drew
C16_Witness ==
  /\ ipc = "returned"
  /\ iFont.font # "helv"
  /\ drawnBy = 4
  /\ Len(tried) = 4
  /\ tried[4].font = "helv"
  /\ tried[3].font = iFont.font
  /\ pointCalls = 0

\* the text the source page holds that is still on the page
SourceItems(items) == SelectSeq(items, LAMBDA it : it.kind = "source")

\* the items that lie clear of every region of the page
C17_ClearOfRegions(items) ==
  SelectSeq(items,
            LAMBDA it : \A i \in DOMAIN redaction_rects :
                          ~Intersects(redaction_rects[i], it.bbox))

\* C17: the erasures of a page are applied in one batch: every region is
\* registered first, apply_redactions is called once, and no translated
\* text is inserted before it; when an exception interrupts the computation
\* of the regions, no region of the page is erased.
C17_OneBatchPerPage ==
  /\ [](/\ applyCalls <= 1
        /\ pc = "apply" =>
             /\ applyCalls = 0
             /\ Len(redaction_rects) = Len(translation_tasks)
             /\ annots = redaction_rects
        /\ pc \in {"insert_loop", "inserting"} =>
             /\ applyCalls = 1
             /\ annots = <<>>
        /\ (\E i \in DOMAIN pageItems : pageItems[i].kind = "translated")
             => applyCalls = 1)
  /\ [][(pc # "page_loop" /\ SourceItems(pageItems') # SourceItems(pageItems))
          => /\ pc = "apply"
             /\ pc' = "insert_loop"
             /\ applyCalls' = 1
             /\ pageItems' = C17_ClearOfRegions(pageItems)]_vars
  /\ [][(pc = "apply" /\ pc' = "insert_loop")
          => pageItems' = C17_ClearOfRegions(pageItems)]_vars
  /\ [][(pc = "redact_loop" /\ pc' = PageHandlerTarget)
          => /\ applyCalls' = 0
             /\ pageItems' = pageItems]_vars
  /\ []((pc = "page_loop" /\ pageRaised /\ applyCalls = 0)
          => \A i \in DOMAIN individual_spans :
               Present(individual_spans[i].text, individual_spans[i].bbox))

\* two regions were registered and applied, and the first insertion runs
C17_Witness ==
  /\ pc = "inserting"
  /\ applyCalls = 1
  /\ Len(redaction_rects) = 2
  /\ annots = <<>>
  /\ SourceItems(pageItems) = <<>>
  /\ \A i \in DOMAIN pageItems : pageItems[i].kind # "translated"

\* the task of span sp with the policy result t, as lines 411-416 build it
C18_TaskOf(sp, t) ==
  [original |-> sp.text, translated |-> t, bbox |-> sp.bbox,
   font_info |-> sp.font_info]

\* C18: on every page a task is created for a span if and only if the
\* policy result differs from the text of the span; so every task has a
\* translation that differs from its original, and a region is registered
\* and a text is inserted only for a span that has a task.
C18_TaskIffChanged ==
  /\ [][(pc = "span_translate" /\ pc' = "span_loop") =>
          IF result # individual_spans[spanIdx].text
            THEN translation_tasks' =
                   Append(translation_tasks,
                          C18_TaskOf(individual_spans[spanIdx], result))
            ELSE translation_tasks' = translation_tasks]_vars
  /\ [][translation_tasks' # translation_tasks =>
          \/ translation_tasks' = <<>>
          \/ /\ pc = "span_translate"
             /\ result # individual_spans[spanIdx].text]_vars
  /\ [](/\ \A i \in DOMAIN translation_tasks :
             /\ translation_tasks[i].translated # translation_tasks[i].original
             /\ \E j \in 1..spanIdx :
                  /\ individual_spans[j].text = translation_tasks[i].original
                  /\ individual_spans[j].bbox = translation_tasks[i].bbox
        /\ Len(redaction_rects) <= Len(translation_tasks)
        /\ \A i \in DOMAIN redaction_rects :
             /\ redaction_rects[i].x0 = translation_tasks[i].bbox.x0 - 100
             /\ redaction_rects[i].y0 = translation_tasks[i].bbox.y0 - 100
             /\ redaction_rects[i].x1 > translation_tasks[i].bbox.x1
             /\ redaction_rects[i].y1 > translation_tasks[i].bbox.y1
        /\ \A k \in DOMAIN pageItems :
             pageItems[k].kind = "translated" =>
               \E i \in DOMAIN translation_tasks :
                 /\ pageItems[k].at = translation_tasks[i].bbox
                 /\ pageItems[k].text = translation_tasks[i].translated)

\* of two spans one has a task: its region is registered and applied
C18_Witness ==
  /\ pc = "insert_loop"
  /\ Len(individual_spans) = 2
  /\ Len(translation_tasks) = 1
  /\ Len(redaction_rects) = 1
  /\ applyCalls = 1

\* the positions of the image pipeline and of the text phase of a page
C19_ImagePcs ==
  {"images", "img_loop", "img_extract", "img_ocr", "img_translate",
   "img_rect1", "img_rect2", "img_rect3", "img_rect4", "img_insert",
   "img_inserting"}

C19_TextPcs ==
  {"extract", "span_loop", "span_translate", "redact_loop", "apply",
   "insert_loop", "inserting"}

C19_ImageTexts(items) == SelectSeq(items, LAMBDA it : it.kind = "image_text")

\* C19: the pages are processed strictly in document order; on each page
\* the image processing has ended when the extraction of the spans starts;
\* save is invoked exactly once, after the last page, and the document is
\* closed after the save.
C19_PageAndSaveOrder ==
  /\ [](processed = 1..pageNum /\ pageNum <= numPages)
  /\ [][pageNum' # pageNum =>
          /\ pageNum' = pageNum + 1
          /\ pc = "page_loop"
          /\ pc' = "images"]_vars
  /\ [][(pc \in C19_TextPcs) => (pc' \in C19_TextPcs \cup {"page_loop"})]_vars
  /\ [][(pc' = "extract" /\ pc # "extract") => (pc \in C19_ImagePcs)]_vars
  /\ [](pc \in C19_TextPcs =>
          /\ (pc # "span_translate" => tpc = "idle")
          /\ (pc # "inserting" => ipc = "idle"))
  /\ [][(pc \in C19_TextPcs \cup {"page_loop"}) =>
          \/ pc' = "images"
          \/ \A k \in DOMAIN C19_ImageTexts(pageItems') :
               \E j \in DOMAIN pageItems :
                 pageItems[j] = C19_ImageTexts(pageItems')[k]]_vars
  /\ [](saveCalls <= 1)
  /\ [][saveCalls' # saveCalls =>
          /\ pc = "save"
          /\ pageNum = numPages
          /\ processed = 1..numPages
          /\ ~closed]_vars
  /\ [](pc \in C19_ImagePcs \cup C19_TextPcs \cup {"page_loop"}
          => (saveCalls = 0 /\ ~closed))
  /\ [](closed => saveCalls = 1)
  /\ (pc = "page_loop") ~> (saveCalls = 1 /\ (closed \/ pc = "save_failed"))

\* a document of two pages, the last one with images, saved and closed
C19_Witness ==
  /\ pc = "done"
  /\ closed
  /\ saveCalls = 1
  /\ numPages = 2
  /\ processed = {1, 2}
  /\ imagesSeen # {}

\* C20: the spans the text phase of a page extracts, translates and redacts
\* are spans of the source page: text the image pipeline drew on the page
\* is not among them.
C20_ExtractedAreSourceSpans ==
  \A i \in DOMAIN individual_spans :
    \E k \in PageKinds : \E j \in DOMAIN k.items :
      /\ k.items[j].kind = "source"
      /\ k.items[j].text = individual_spans[i].text
      /\ k.items[j].bbox = individual_spans[i].bbox

\* the text the running call has drawn
C21_DrawnItem == pageItems[Len(pageItems)]

C22_InteriorQuotesKept ==
  (tpc = "returned" /\ backendCalls = backendFails + 1) =>
    LET s == Strip(reply) IN
    \A i \in 2..(Len(s) - 1) :
      ( /\ s[i] \in {"\"", "'"}
        /\ s[i - 1] \notin {"\"", "'", " "}
        /\ s[i + 1] \notin {"\"", "'", " "} )
        => \E j \in DOMAIN result : result[j] = s[i]

\* C23: after the adjustment of the foreground colour the text never has
\* low contrast against the sampled background: on a dark background the
\* colour used is not dark, on a light background it is not light.
C23_NeverLowContrast ==
  bpc = "adjusted" =>
    IF is_dark_color(bgResult)
      THEN ~MeanBelow(textColor, 4)
      ELSE ~MeanAbove(textColor, 8)

\* C24: shrink_font_to_fit draws visibly only at a size whose fit probe has
\* just reported a fit: every drawn text of a page follows an invisible
\* probe of the same text, box and size.
C24_DrawnOnlyAfterProbe ==
  \A k \in DOMAIN pageItems :
    pageItems[k].kind = "translated" =>
      /\ k > 1
      /\ pageItems[k - 1].kind = "invisible"
      /\ pageItems[k - 1].text = pageItems[k].text
      /\ pageItems[k - 1].size = pageItems[k].size
      /\ pageItems[k - 1].at = pageItems[k].at

RECURSIVE C25_Total(_)
C25_Total(w) == IF w = <<>> THEN 0 ELSE Head(w) + C25_Total(Tail(w))

\* C25: in translate_text_conservative the wait after the k-th failed
\* attempt is 2^(k-1) seconds, a wait occurs only between two attempts and
\* none follows the last failed attempt, so that with a bound retries >= 1
\* the waits of an exhausted call add up to 2^(retries-1) - 1 seconds.
C25_BackoffBetweenAttempts ==
  /\ \A k \in DOMAIN sleeps : sleeps[k] = Pow2(k - 1)
  /\ tpc = "loop" =>
       /\ backendCalls = attempt
       /\ Len(sleeps) = (IF attempt < retries THEN attempt
                         ELSE IF retries = 0 THEN 0 ELSE retries - 1)
  /\ (tpc = "returned" /\ backendCalls > 0) =>
       /\ Len(sleeps) = backendCalls - 1
       /\ (result = text /\ backendCalls = retries /\ backendFails >= retries)
            => C25_Total(sleeps) = Pow2(retries - 1) - 1
  /\ backendCalls = 0 => sleeps = <<>>

\* three attempts failed: waits of 1 and 2 seconds, none after the third
C25_Witness ==
  /\ tpc = "returned"
  /\ retries = 3
  /\ backendCalls = 3
  /\ backendFails >= 3
  /\ sleeps = <<1, 2>>
  /\ result = text

\* the position of the n-th lookup of get_image_rect_comprehensive
C26_Method(n) ==
  CASE n = 1 -> "img_rect1" [] n = 2 -> "img_rect2"
    [] n = 3 -> "img_rect3" [] n = 4 -> "img_rect4"

C27_ReplacedAtLastResort ==
  ( /\ pc = "v3_returned"
    /\ english_text # <<>>
    /\ fake_rect.bound \in {"unbound", "nothing"}
    /\ img_rect = get_image_rect_from_size(image_list[imgIdx]) ) =>
    \E i \in DOMAIN pageImages :
      /\ pageImages[i].ocr = translated_text
      /\ pageImages[i].rect = img_rect

\* the translated texts that a draw primitive has put on the current page
C28_Drawn ==
  Cardinality({i \in DOMAIN pageItems : pageItems[i].kind = "translated"})

\* C28: between two insertions of a page, the count of successful
\* insertions is the number of translated texts drawn on the page.
C28_CountIsDrawnTasks ==
  pc \in {"insert_loop", "v4_insert_loop"} =>
    successful_insertions = C28_Drawn

\* C29: move_file never loses a file: once a call has returned, the content
\* its source file had is still on the share, in the source folder or in
\* the target folder.
C29_SourceNeverLost ==
  (spc \in {"loop", "sleep"} /\ moved.had # 0) =>
    \/ share[src_path(moved.name)] = moved.had
    \/ share[dest_path(moved.folder, moved.name)] = moved.had

\* the calls of move_file of the current pass for the name n
C30_MovesOf(n) == {i \in DOMAIN passMoves : passMoves[i].name = n}

\* C30: over the polling passes, a name is in processed_files only after
\* index_document returned for it; the try of process_files (download,
\* parse, index) never runs for a name in processed_files; and at the end
\* of a pass every pending .html name has had exactly one move_file call and
\* no other name has had one, to the processed folder when download, parse
\* and indexing all succeeded and to the error folder otherwise.
C30_ProcessedOnceMovedOnce ==
  /\ processed_files \subseteq indexedOk
  /\ spc \in {"download", "parse", "index"} => name \notin processed_files
  /\ \A i \in DOMAIN passMoves :
       passMoves[i].folder = IF passMoves[i].stage = "indexed"
                               THEN PROCESSED_FOLDER ELSE ERROR_FOLDER
  /\ \A n \in Names : Cardinality(C30_MovesOf(n)) <= 1
  /\ spc = "sleep" /\ passes > 0 =>
       \A n \in Names :
         Cardinality(C30_MovesOf(n)) = IF n \in pending THEN 1 ELSE 0

\* C30 happens: the second pass has ended; a name of processed_files is
\* still in the polled folder and was passed over, and another name was
\* moved to the error folder
C30_Witness ==
  /\ spc = "sleep"
  /\ passes = 2
  /\ \E n \in processed_files :
       /\ share[src_path(n)] # 0
       /\ C30_MovesOf(n) = {}
  /\ \E i \in DOMAIN passMoves : passMoves[i].folder = ERROR_FOLDER

====
